---- MODULE Spec2Model ----
(***************************************************************************)
(* A model of xmlui-test-server.go: the /query handler, the declarative    *)
(* API handler, the reverse proxy handler and the static file handler,     *)
(* over a database/sql pool capped at one connection.                      *)
(*                                                                         *)
(* Strings are sequences of one-character strings, so that prefix,         *)
(* suffix, split and replace are computed as the Go code computes them.    *)
(* Record constructors list their fields in the order in which TLC keeps   *)
(* them, so that no worker reorders a record another worker is reading.    *)
(***************************************************************************)
EXTENDS Integers, Sequences, FiniteSets, TLC

\* ------------------------------------------------------------ bounds
\* Request slots served concurrently in SpecConc.
NumReqs == 2
\* Largest number of rows the table holds.
MaxRows == 2
\* Longest /proxy/ remainder enumerated in SpecProxy.
MaxProxyLen == 4
\* Longest request path enumerated in SpecStatic.
MaxStaticLen == 4
\* Longest endpoint template and longest request path of the path matcher.
MaxTmplLen == 4
\* Most units (statements or if-blocks) of the patched source file.
MaxUnits == 3
\* Longest request path matched against an endpoint list in SpecMatch.
MaxPathLen == 4
\* Most lines of the sqlite3.go that git clone delivers in SpecRepatch.
MaxSrcLines == 3

\* db.SetMaxOpenConns(1)
MaxOpenConns == 1

Reqs == 1 .. NumReqs

\* ------------------------------------------------------------ strings
Range(s) == {s[i] : i \in DOMAIN s}

\* strings.HasPrefix
HasPrefix(s, p) == Len(p) <= Len(s) /\ SubSeq(s, 1, Len(p)) = p

\* strings.TrimPrefix
TrimPrefix(s, p) == IF HasPrefix(s, p) THEN SubSeq(s, Len(p) + 1, Len(s)) ELSE s

\* strings.HasSuffix
HasSuffix(s, x) == Len(x) <= Len(s) /\ SubSeq(s, Len(s) - Len(x) + 1, Len(s)) = x

\* strings.TrimSuffix
TrimSuffix(s, x) == IF HasSuffix(s, x) THEN SubSeq(s, 1, Len(s) - Len(x)) ELSE s

\* strings.Index, 1-based; 0 when sub does not occur in s
Index(s, sub) ==
    LET hits == {i \in 1 .. (Len(s) - Len(sub) + 1) : SubSeq(s, i, i + Len(sub) - 1) = sub}
    IN IF hits = {} THEN 0 ELSE CHOOSE i \in hits : \A j \in hits : i <= j

\* strings.Replace(s, old, new, 1): the first occurrence only
Replace1(s, old, new) ==
    LET i == Index(s, old)
    IN IF i = 0 THEN s
       ELSE SubSeq(s, 1, i - 1) \o new \o SubSeq(s, i + Len(old), Len(s))

\* strings.SplitN(s, sep, 2) for a one-character separator
SplitN2(s, sep) ==
    LET i == Index(s, <<sep>>)
    IN IF i = 0 THEN <<s>>
       ELSE <<SubSeq(s, 1, i - 1), SubSeq(s, i + 1, Len(s))>>

\* strings.Split(s, sep) for a one-character separator
RECURSIVE Split(_, _)
Split(s, sep) ==
    LET i == Index(s, <<sep>>)
    IN IF i = 0 THEN <<s>>
       ELSE <<SubSeq(s, 1, i - 1)>> \o Split(SubSeq(s, i + 1, Len(s)), sep)

\* A Go map built by assigning vals[i] to keys[i] in order: the last
\* assignment to a key wins.
MapOf(keys, vals) ==
    [k \in Range(keys) |->
        vals[CHOOSE i \in DOMAIN keys :
                /\ keys[i] = k
                /\ \A j \in DOMAIN keys : keys[j] = k => j <= i]]

EmptyMap == MapOf(<<>>, <<>>)

\* ------------------------------------------------------------ values
\* An SQL argument: a Go string, or nil.
Str(s) == [s |-> s, null |-> FALSE]
Nil == [s |-> <<>>, null |-> TRUE]

\* ------------------------------------------------------------ API description
\* Parameter names used by the API description.
NameA == <<"a">>
NameB == <<"b">>
NameAB == <<"a", "b">>
NameI == <<"i">>

\* MethodDefinition{SQL, Params}
MethodDefinition(sql, params) == [SQL |-> sql, Params |-> params]

\* The loaded APIDescription (the --api file): basePath "/v" and five
\* endpoints.  The first character of an SQL text names the statement:
\* S selects the table, I inserts a row.
\*   /c      GET  S            POST I:a:b  params a, b
\*   /c/:i   GET  S:i          params i
\*   /o      GET  S:a:b        params b, a   (declared against SQL order)
\*           OPTIONS I
\*   /p      GET  S:ab:a       params a, ab  (one name a prefix of another)
\*   /r      GET  S:a:a        params a      (one name twice in the SQL)
apiDesc ==
    [BasePath |-> <<"/", "v">>,
     Endpoints |-> <<
        [Path |-> <<"/", "c">>,
         Methods |-> [m \in {"GET", "POST"} |->
            IF m = "GET" THEN MethodDefinition(<<"S">>, <<>>)
            ELSE MethodDefinition(<<"I", ":", "a", ":", "b">>, <<NameA, NameB>>)]],
        [Path |-> <<"/", "c", "/", ":", "i">>,
         Methods |-> [m \in {"GET"} |->
            MethodDefinition(<<"S", ":", "i">>, <<NameI>>)]],
        [Path |-> <<"/", "o">>,
         Methods |-> [m \in {"GET", "OPTIONS"} |->
            IF m = "GET" THEN MethodDefinition(<<"S", ":", "a", ":", "b">>, <<NameB, NameA>>)
            ELSE MethodDefinition(<<"I">>, <<>>)]],
        [Path |-> <<"/", "p">>,
         Methods |-> [m \in {"GET"} |->
            MethodDefinition(<<"S", ":", "a", "b", ":", "a">>, <<NameA, NameAB>>)]],
        [Path |-> <<"/", "r">>,
         Methods |-> [m \in {"GET"} |->
            MethodDefinition(<<"S", ":", "a", ":", "a">>, <<NameA>>)]]
     >>]

\* One path segment of a compiled template.  regexp.QuoteMeta makes every
\* character of the template literal; `:([^/]+)` then turns the first ':'
\* that is followed by a character of the same segment, and the rest of
\* that segment, into the capture group ([^/]+).
SegPattern(seg) ==
    LET i == Index(seg, <<":">>)
    IN IF i = 0 \/ i = Len(seg)
       THEN [lit |-> seg, cap |-> FALSE]
       ELSE [lit |-> SubSeq(seg, 1, i - 1), cap |-> TRUE]

\* pathToRegexp followed by regexp.MustCompile: "^" + pattern + "$", kept
\* as the patterns of the template's '/'-separated segments.
pathToRegexp(path) ==
    LET segs == Split(path, "/")
    IN [k \in DOMAIN segs |-> SegPattern(segs[k])]

\* One segment of the subject against one segment pattern.
SegMatch(p, seg) ==
    IF p.cap THEN HasPrefix(seg, p.lit) /\ Len(seg) > Len(p.lit)
    ELSE seg = p.lit

\* re.MatchString
MatchString(re, path) ==
    LET segs == Split(path, "/")
    IN /\ Len(segs) = Len(re)
       /\ \A k \in DOMAIN re : SegMatch(re[k], segs[k])

\* The capture groups of a matching subject, in order.
RECURSIVE Captures(_, _, _)
Captures(re, segs, k) ==
    IF k > Len(re) THEN <<>>
    ELSE (IF re[k].cap
          THEN <<SubSeq(segs[k], Len(re[k].lit) + 1, Len(segs[k]))>>
          ELSE <<>>) \o Captures(re, segs, k + 1)

\* re.FindStringSubmatch: empty when there is no match, else the whole
\* match followed by the capture groups.
FindStringSubmatch(re, path) ==
    IF MatchString(re, path)
    THEN <<path>> \o Captures(re, Split(path, "/"), 1)
    ELSE <<>>

\* The paramNames loop of extractPathParams: the segments of the template
\* that begin with ':', without the ':'.
RECURSIVE ParamNames(_, _)
ParamNames(parts, k) ==
    IF k > Len(parts) THEN <<>>
    ELSE (IF HasPrefix(parts[k], <<":">>)
          THEN <<SubSeq(parts[k], 2, Len(parts[k]))>>
          ELSE <<>>) \o ParamNames(parts, k + 1)

\* extractPathParams
extractPathParams(requestPath, endpointPath, re) ==
    LET paramNames == ParamNames(Split(endpointPath, "/"), 1)
        matches == FindStringSubmatch(re, requestPath)
        n == IF Len(matches) > 1
             THEN (IF Len(paramNames) < Len(matches) - 1
                   THEN Len(paramNames) ELSE Len(matches) - 1)
             ELSE 0
    IN MapOf(SubSeq(paramNames, 1, n),
             [i \in 1 .. n |-> Str(matches[i + 1])])

\* Server.pathRegexps as NewServer fills it: one compiled regexp per
\* declared endpoint path.
pathRegexps ==
    MapOf([k \in DOMAIN apiDesc.Endpoints |-> apiDesc.Endpoints[k].Path],
          [k \in DOMAIN apiDesc.Endpoints |-> pathToRegexp(apiDesc.Endpoints[k].Path)])

\* The first endpoint, in declaration order, whose regexp matches path;
\* 0 when none does.
FirstMatch(path) ==
    LET hits == {k \in DOMAIN apiDesc.Endpoints :
                    /\ apiDesc.Endpoints[k].Path \in DOMAIN pathRegexps
                    /\ MatchString(pathRegexps[apiDesc.Endpoints[k].Path], path)}
    IN IF hits = {} THEN 0 ELSE CHOOSE k \in hits : \A j \in hits : k <= j

\* The endpoint findMatchingEndpoint returns with its path parameters:
\* idx is its position in apiDesc.Endpoints, 0 for nil.
Found(idx, path) ==
    [params |-> extractPathParams(path, apiDesc.Endpoints[idx].Path,
                                  pathRegexps[apiDesc.Endpoints[idx].Path]),
     idx |-> idx]

NotFoundEndpoint == [params |-> EmptyMap, idx |-> 0]

\* "Strip base path if present"
StripBasePath(requestPath, basePath) ==
    IF basePath /= <<>> /\ HasPrefix(requestPath, basePath)
    THEN (IF TrimPrefix(requestPath, basePath) = <<>> THEN <<"/">>
          ELSE TrimPrefix(requestPath, basePath))
    ELSE requestPath

NormalizePath_Keep(requestPath) == requestPath

\* "Normalize the path by removing trailing slashes"
NormalizePath(requestPath) ==
    IF TrimSuffix(requestPath, <<"/">>) = <<>> THEN <<"/">>
    ELSE TrimSuffix(requestPath, <<"/">>)

\* The two matching loops: the normalized path first, the original path
\* as a fallback when it differs.
MatchLoops(requestPath, normalizedPath) ==
    IF FirstMatch(normalizedPath) /= 0
    THEN Found(FirstMatch(normalizedPath), normalizedPath)
    ELSE IF normalizedPath /= requestPath /\ FirstMatch(requestPath) /= 0
    THEN Found(FirstMatch(requestPath), requestPath)
    ELSE NotFoundEndpoint

MatchStripped(requestPath) == MatchLoops(requestPath, NormalizePath(requestPath))

\* Server.findMatchingEndpoint
findMatchingEndpoint(requestPath) ==
    MatchStripped(StripBasePath(requestPath, apiDesc.BasePath))

\* ------------------------------------------------------------ HTTP responses
\* An http.ResponseWriter: status 0 until the header is written; the body
\* is nothing, a JSON document or plain text.
NewWriter == [status |-> 0, kind |-> "none", isnull |-> FALSE, items |-> <<>>, text |-> <<>>]

\* w.WriteHeader: only the first call sets the status line.
WriteHeader(w, code) == IF w.status = 0 THEN [w EXCEPT !.status = code] ELSE w

\* w.Write of plain text: writes the header with 200 when none was written.
WriteText(w, text) == [WriteHeader(w, 200) EXCEPT !.kind = "text", !.text = text]

\* http.Error
HttpError(w, msg, code) == WriteText(WriteHeader(w, code), msg)

\* http.NotFound
NotFound(w) == HttpError(w, <<"404 page not found">>, 404)

\* sendErrorResponse
sendErrorResponse(w, message, statusCode) == HttpError(w, message, statusCode)

\* A Go slice of row maps: nil until the first append.
NilResult == [items |-> <<>>, isnil |-> TRUE]
AppendResult(res, entry) == [items |-> Append(res.items, entry), isnil |-> FALSE]

\* json.Marshal of a result: a nil slice encodes as null, a non-finite
\* float is an encoding error.
jsonMarshal(res) ==
    [isnull |-> res.isnil,
     items |-> res.items,
     ok |-> \A i \in DOMAIN res.items :
               \A c \in DOMAIN res.items[i] : res.items[i][c].t /= "inf"]

\* Server.sendJSONResponse
sendJSONResponse(w, data, statusCode) ==
    LET w1 == WriteHeader(w, statusCode)
        m == jsonMarshal(data)
    IN IF ~m.ok
       THEN HttpError(w1, <<"Internal server error">>, 500)
       ELSE [WriteHeader(w1, 200) EXCEPT !.kind = "json", !.isnull = m.isnull,
                                         !.items = m.items]

\* ------------------------------------------------------------ the database
\* The statement named by the first character of an SQL text.
StmtKind(text) == IF text = <<>> THEN "" ELSE text[1]

\* rows.Columns() of a statement.
Columns(text) ==
    IF StmtKind(text) = "S" THEN <<"id", "name">>
    ELSE IF StmtKind(text) = "F" THEN <<"x">>
    ELSE IF StmtKind(text) = "D" THEN <<"id", "id">>
    ELSE <<>>

\* The rows a successful statement yields over a table of n rows, as the
\* driver hands them to Scan: S selects every row (an INTEGER and a BLOB
\* column), F selects one non-finite REAL, D selects two INTEGER columns
\* that carry the same name (as a join of a table with itself does), I
\* yields no rows.
ResultRows(text, n) ==
    IF StmtKind(text) = "S"
    THEN [i \in 1 .. n |-> <<[t |-> "int", n |-> i], [t |-> "bytes", n |-> i]>>]
    ELSE IF StmtKind(text) = "F" THEN << <<[t |-> "inf", n |-> 0]>> >>
    ELSE IF StmtKind(text) = "D"
    THEN [i \in 1 .. n |-> <<[t |-> "int", n |-> i], [t |-> "int", n |-> n + 1 - i]>>]
    ELSE <<>>

\* The table after a successful statement: I inserts one row.
TableAfter(text, n) == IF StmtKind(text) = "I" THEN n + 1 ELSE n

\* Whether db.Query of the statement can succeed: an unknown statement is
\* a syntax error, an insert into a full table fails.
CanSucceed(text, n) ==
    /\ StmtKind(text) \in {"S", "I", "F", "D"}
    /\ StmtKind(text) = "I" => n < MaxRows

\* The entry loop of executeQuery: []byte values become strings, then
\* entry[col] = v for each column in order.
RowEntry(columns, values) ==
    MapOf(columns,
          [i \in DOMAIN values |->
              IF values[i].t = "bytes" THEN [values[i] EXCEPT !.t = "string"]
              ELSE values[i]])

\* ------------------------------------------------------------ parameter binding
\* Characters of a parameter name.
NameChars == {"a", "b", "i"}

\* The length of the run of name characters of s that starts at i.
RECURSIVE NameLen(_, _)
NameLen(s, i) ==
    IF i <= Len(s) /\ s[i] \in NameChars THEN 1 + NameLen(s, i + 1) ELSE 0

\* The parameter tokens of an SQL text in order: "?" is positional, ":"
\* followed by a name is named.
RECURSIVE ParamTokens(_, _)
ParamTokens(s, i) ==
    IF i > Len(s) THEN <<>>
    ELSE IF s[i] = "?"
    THEN <<[named |-> FALSE, name |-> <<>>]>> \o ParamTokens(s, i + 1)
    ELSE IF s[i] = ":" /\ NameLen(s, i + 1) > 0
    THEN <<[named |-> TRUE, name |-> SubSeq(s, i + 1, i + NameLen(s, i + 1))]>>
         \o ParamTokens(s, i + 1 + NameLen(s, i + 1))
    ELSE ParamTokens(s, i + 1)

\* The parameter index SQLite gives token k: a "?" and the first use of a
\* name take the next index, a repeated name shares its first index.
ParamIndex(tokens, k) ==
    LET First(j) == ~tokens[j].named
                    \/ \A h \in 1 .. (j - 1) : ~(tokens[h].named /\ tokens[h].name = tokens[j].name)
        Origin(j) == IF First(j) THEN j
                     ELSE CHOOSE h \in 1 .. (j - 1) :
                            /\ tokens[h].named /\ tokens[h].name = tokens[j].name
                            /\ First(h)
    IN Cardinality({h \in 1 .. Origin(k) : First(h)})

\* s.db.Query(sqlQuery, params...): the value the statement binds to its
\* k-th parameter token, the arguments being positional; a parameter
\* beyond the arguments stays NULL.
BoundValue(text, args, k) ==
    LET i == ParamIndex(ParamTokens(text, 1), k)
    IN IF i <= Len(args) THEN args[i] ELSE Nil

\* ------------------------------------------------------------ request bodies
\* A request body: unreadable, empty, not JSON, a JSON array, or a JSON
\* object with the keys sql and params and the further keys in obj.
Body(kind, sql, params, obj) == [sql |-> sql, params |-> params, kind |-> kind, obj |-> obj]

\* json.NewDecoder(&bodyBuffer).Decode(&req) into a QueryRequest
DecodeQueryRequest(body) ==
    [SQL |-> body.sql, Params |-> body.params, ok |-> body.kind = "obj"]

\* extractBodyParams
extractBodyParams(body) ==
    [params |-> IF body.kind = "obj" THEN body.obj ELSE EmptyMap,
     err |-> body.kind \in {"readerr", "garbage", "array"}]

\* extractQueryParams: the first value of each key of the URL query, given
\* as the sequences of keys and of value lists.
extractQueryParams(q) ==
    LET keep == {i \in DOMAIN q.keys : Len(q.values[i]) > 0}
        idx == [j \in 1 .. Cardinality(keep) |->
                   CHOOSE i \in keep : Cardinality({h \in keep : h < i}) = j - 1]
    IN MapOf([j \in DOMAIN idx |-> q.keys[idx[j]]],
             [j \in DOMAIN idx |-> Str(q.values[idx[j]][1])])

\* ------------------------------------------------------------ handlers
Statement(text, args) == [text |-> text, args |-> args]
NoStatement == Statement(<<>>, <<>>)

\* What a handler has decided before it calls executeQuery: either the
\* response it wrote, or the statement to execute.
Responded(w) == [w |-> w, run |-> FALSE, stmt |-> NoStatement]
Execute(stmt) == [w |-> NewWriter, run |-> TRUE, stmt |-> stmt]

ResolveParam_BodyFirst(name, pathParams, queryParams, bodyParams) ==
    IF name \in DOMAIN bodyParams THEN bodyParams[name]
    ELSE IF name \in DOMAIN queryParams THEN queryParams[name]
    ELSE IF name \in DOMAIN pathParams THEN pathParams[name]
    ELSE Nil

\* The value handleAPI resolves for a parameter name: path parameters
\* first, then query parameters, then body parameters, then nil.
ResolveParam(name, pathParams, queryParams, bodyParams) ==
    IF name \in DOMAIN pathParams THEN pathParams[name]
    ELSE IF name \in DOMAIN queryParams THEN queryParams[name]
    ELSE IF name \in DOMAIN bodyParams THEN bodyParams[name]
    ELSE Nil

\* The params loop of handleAPI: for each declared name in order, append
\* its value and replace the first ":"+name of the SQL text by "?".
RECURSIVE BindLoop(_, _, _, _, _, _, _)
BindLoop(sqlQuery, sqlParams, names, k, pathParams, queryParams, bodyParams) ==
    IF k > Len(names) THEN Statement(sqlQuery, sqlParams)
    ELSE BindLoop(Replace1(sqlQuery, <<":">> \o names[k], <<"?">>),
                  Append(sqlParams,
                         ResolveParam(names[k], pathParams, queryParams, bodyParams)),
                  names, k + 1, pathParams, queryParams, bodyParams)

\* The part of handleAPI that follows the endpoint lookup: found is what
\* findMatchingEndpoint returned.
RunMethod(methodDef, found, query, body) ==
    Execute(BindLoop(methodDef.SQL, <<>>, methodDef.Params, 1,
                     found.params, extractQueryParams(query),
                     extractBodyParams(body).params))

AfterLookup_MethodUnchecked(found, method, query, body) ==
    IF found.idx = 0 THEN Responded(NotFound(NewWriter))
    ELSE IF method \notin DOMAIN apiDesc.Endpoints[found.idx].Methods
    THEN RunMethod(apiDesc.Endpoints[found.idx].Methods["GET"], found, query, body)
    ELSE RunMethod(apiDesc.Endpoints[found.idx].Methods[method], found, query, body)

AfterLookup(found, method, query, body) ==
    IF found.idx = 0 THEN Responded(NotFound(NewWriter))
    ELSE IF method \notin DOMAIN apiDesc.Endpoints[found.idx].Methods
    THEN Responded(sendErrorResponse(NewWriter, <<"Method not allowed">>, 405))
    ELSE RunMethod(apiDesc.Endpoints[found.idx].Methods[method], found, query, body)

\* Server.handleAPI up to the call of executeQuery.
handleAPI(method, path, query, body) ==
    AfterLookup(findMatchingEndpoint(path), method, query, body)

\* Server.handleQuery up to the call of executeQuery.
handleQuery_AnyMethod(method, body) ==
    LET dec == DecodeQueryRequest(body)
    IN IF body.kind = "readerr"
       THEN Responded(sendErrorResponse(NewWriter, <<"Failed to read request body">>, 500))
       ELSE IF ~dec.ok
       THEN Responded(sendErrorResponse(NewWriter, <<"decode error">>, 400))
       ELSE Execute(Statement(dec.SQL, dec.Params))

handleQuery(method, body) ==
    LET dec == DecodeQueryRequest(body)
    IN IF method /= "POST"
       THEN Responded(sendErrorResponse(NewWriter, <<"Only POST method is allowed">>, 405))
       ELSE IF body.kind = "readerr"
       THEN Responded(sendErrorResponse(NewWriter, <<"Failed to read request body">>, 500))
       ELSE IF ~dec.ok
       THEN Responded(sendErrorResponse(NewWriter, <<"decode error">>, 400))
       ELSE Execute(Statement(dec.SQL, dec.Params))

\* The end of handleQuery and of handleAPI, after executeQuery returned
\* (result, err).
HandlerTail(route, result, err) ==
    IF err /= "none"
    THEN (IF route = "api"
          THEN sendErrorResponse(NewWriter, <<"Database error: ", err>>, 500)
          ELSE sendErrorResponse(NewWriter, <<err>>, 500))
    ELSE sendJSONResponse(NewWriter, result, 200)

\* ------------------------------------------------------------ state
VARIABLES
    pc,         \* per request slot: idle, call, cols, rows, ret, done
    req,        \* per slot: the request being served
    stmt,       \* per slot: the statement the handler passes to executeQuery
    cursor,     \* per slot: the rows of the open sql.Rows not yet read
    result,     \* per slot: executeQuery's result slice
    qerr,       \* per slot: executeQuery's error, "none" for nil
    resp,       \* per slot: the response written
    sent,       \* per slot: how often the statement went to the database
    nread,      \* per slot: rows scanned
    holders,    \* the slots whose sql.Rows hold a pool connection
    tbl,        \* the number of rows of the table in data.db
    proxyReq,   \* the request given to handleProxy
    proxyOut,   \* what handleProxy forwarded or answered
    fs,         \* the files of the working directory
    staticReq,  \* the request given to the static file handler
    staticOut,  \* what the static file handler did
    hdrs,       \* per slot: the header lines set on the response writer
    auxHdrs,    \* the header lines of a proxied or static response
    args,       \* the option names on the command line of main
    basePath,   \* the basePath of the loaded API description
    mainPc,     \* main: start, parsed, server, listening, exit, panic
    routes,     \* the patterns registered with the mux, in order
    dbName,     \* the database NewServer opened
    lookup,     \* a request path and the endpoint findMatchingEndpoint gave
    tmpl,       \* an endpoint path template
    rpath,      \* a request path matched against tmpl
    pathOut,    \* what extractPathParams returned for rpath and tmpl
    file,       \* the lines of sqlite3.go
    patchPc,    \* prepare-go-sqlite3.sh: cloned, patched, failed, opened
    dbNil,      \* whether sqlite3_open left db nil
    enabled,    \* how often Open called sqlite3_enable_load_extension
    endpoints,  \* the endpoint path templates of an API description, in order
    answers,    \* request paths with what findMatchingEndpoint returned for them
    bootFailed, \* the steps of NewServer that failed
    srvApi,     \* Server.apiDesc: "nil" or "loaded"
    srvRegexps, \* the keys of Server.pathRegexps
    srvShow,    \* Server.showResponses
    shown,      \* one request answered with and without --show-responses
    buildEnv,   \* build-unified.sh: what holds of the machine it runs on
    buildPc,    \* build-unified.sh: the step the script is at
    buildOut,   \* build-unified.sh: what the script printed or ran so far
    goTree,     \* patch-go-sqlite3.sh: the sqlite3.go of each checkout, by depth
    goPc,       \* patch-go-sqlite3.sh: <<run, the part of the script that ran last>>
    goFirst,    \* patch-go-sqlite3.sh: goTree as the first run left it
    goConn      \* patch-go-sqlite3.sh: whether a checkout holds a file conn.go

srvVars == <<pc, req, stmt, cursor, result, qerr, resp, sent, nread, holders, tbl>>
mainVars == <<args, basePath, mainPc, routes, dbName, lookup>>
pathVars == <<tmpl, rpath, pathOut>>
patchVars == <<file, patchPc, dbNil, enabled>>
matchVars == <<endpoints, answers>>
bootVars == <<bootFailed, srvApi, srvRegexps, srvShow>>
scriptVars == <<buildEnv, buildPc, buildOut, goTree, goPc, goFirst, goConn>>
extVars == <<matchVars, bootVars, shown, scriptVars>>
toolVars == <<mainVars, pathVars, patchVars, extVars>>
auxRest == <<proxyReq, proxyOut, fs, staticReq, staticOut, auxHdrs, toolVars>>
auxVars == <<auxRest, hdrs>>
vars == <<pc, req, stmt, cursor, result, qerr, resp, sent, nread, holders, tbl,
          proxyReq, proxyOut, fs, staticReq, staticOut, hdrs, auxHdrs,
          args, basePath, mainPc, routes, dbName, lookup,
          tmpl, rpath, pathOut, file, patchPc, dbNil, enabled,
          endpoints, answers, bootFailed, srvApi, srvRegexps, srvShow, shown,
          buildEnv, buildPc, buildOut, goTree, goPc, goFirst, goConn>>

NoQuery == [keys |-> <<>>, values |-> <<>>]
NoBody == Body("empty", <<>>, <<>>, EmptyMap)
NoReq == [path |-> <<>>, body |-> NoBody, query |-> NoQuery, method |-> "", route |-> "none"]
Request(route, method, path, query, body) ==
    [path |-> path, body |-> body, query |-> query, method |-> method, route |-> route]

NoProxy == [path |-> <<>>, rawQuery |-> <<>>]
NoProxyOut == [path |-> <<>>, status |-> 0, rawQuery |-> <<>>, forwarded |-> FALSE,
               scheme |-> <<>>, urlHost |-> <<>>, host |-> <<>>]
NoStatic == [path |-> <<>>, method |-> ""]
NoStaticOut == [name |-> <<>>, status |-> 0, served |-> FALSE]

\* The server after NewServer and main: no request in flight, the pool
\* idle, the table with any number of rows.
InitServer ==
    /\ pc = [r \in Reqs |-> "idle"]
    /\ req = [r \in Reqs |-> NoReq]
    /\ stmt = [r \in Reqs |-> NoStatement]
    /\ cursor = [r \in Reqs |-> <<>>]
    /\ result = [r \in Reqs |-> NilResult]
    /\ qerr = [r \in Reqs |-> "none"]
    /\ resp = [r \in Reqs |-> NewWriter]
    /\ sent = [r \in Reqs |-> 0]
    /\ nread = [r \in Reqs |-> 0]
    /\ holders = {}
    /\ tbl \in 0 .. MaxRows

\* No response headers written yet.
InitHdrs ==
    /\ hdrs = [r \in Reqs |-> {}]
    /\ auxHdrs = {}

\* main, the path matcher and the driver patch are not under study.
InitMainOff ==
    /\ args = {}
    /\ basePath = <<>>
    /\ mainPc = "off"
    /\ routes = <<>>
    /\ dbName = ""
    /\ lookup = <<>>

InitPathOff ==
    /\ tmpl = <<>>
    /\ rpath = <<>>
    /\ pathOut = <<FALSE, EmptyMap>>

InitPatchOff ==
    /\ file = <<>>
    /\ patchPc = "off"
    /\ dbNil = FALSE
    /\ enabled = 0

InitMatchOff ==
    /\ endpoints = <<>>
    /\ answers = {}

InitBootOff ==
    /\ bootFailed = {}
    /\ srvApi = "nil"
    /\ srvRegexps = {}
    /\ srvShow = FALSE

InitBuildOff ==
    /\ buildEnv = {}
    /\ buildPc = "off"
    /\ buildOut = <<>>

InitRepatchOff ==
    /\ goTree = <<>>
    /\ goPc = <<0, "off">>
    /\ goFirst = <<>>
    /\ goConn = FALSE

InitScriptsOff == InitBuildOff /\ InitRepatchOff

InitExtOff == InitMatchOff /\ InitBootOff /\ shown = <<>> /\ InitScriptsOff

InitTools == InitMainOff /\ InitPathOff /\ InitPatchOff /\ InitExtOff

InitProxyOff ==
    /\ proxyReq = NoProxy
    /\ proxyOut = NoProxyOut

InitStaticOff ==
    /\ fs = {}
    /\ staticReq = NoStatic
    /\ staticOut = NoStaticOut

InitAux == InitProxyOff /\ InitStaticOff /\ InitHdrs /\ InitTools

Init == InitServer /\ InitAux

\* ------------------------------------------------------------ request inputs
\* Methods that reach the handlers: corsMiddleware answers OPTIONS itself.
Methods == {"GET", "POST", "PUT"}

\* SQL texts posted to /query: a select, an insert, a select of a
\* non-finite float, a select of two columns of one name, a statement
\* with a syntax error.
QueryTexts == {<<"S">>, <<"I">>, <<"F">>, <<"D">>, <<"X">>}

QueryBodies ==
    {Body(k, <<>>, <<>>, EmptyMap) : k \in {"readerr", "empty", "garbage", "array"}}
    \cup {Body("obj", t, <<>>, EmptyMap) : t \in QueryTexts}

ApiPaths ==
    {<<"/", "v", "/", "c">>, <<"/", "v", "/", "c", "/">>, <<"/", "v", "/", "c", "/", "7">>,
     <<"/", "v", "/", "o">>, <<"/", "v", "/", "p">>, <<"/", "v", "/", "r">>,
     <<"/", "v", "/", "x">>}

ApiQueries ==
    {NoQuery, [keys |-> <<NameA, NameI>>,
               values |-> << <<<<"q">>, <<"r">>>>, <<<<"s">>>> >>]}

ApiBodies ==
    {NoBody, Body("garbage", <<>>, <<>>, EmptyMap),
     Body("obj", <<>>, <<>>,
          MapOf(<<NameA, NameB, NameAB>>, <<Str(<<"1">>), Str(<<"2">>), Str(<<"3">>)>>))}

\* ------------------------------------------------------------ CORS
\* The header lines corsMiddleware sets on every response writer.
CorsHeaders ==
    {<<"Access-Control-Allow-Origin", "*">>,
     <<"Access-Control-Allow-Methods", "GET, POST, PUT, DELETE, OPTIONS">>,
     <<"Access-Control-Allow-Headers", "*">>}

corsMiddleware_OptionsOnly(method) == IF method = "OPTIONS" THEN CorsHeaders ELSE {}

\* corsMiddleware: the headers are set before the method is looked at.
corsMiddleware(method) == CorsHeaders

\* corsMiddleware answers an OPTIONS request itself, with 200 and no body.
Preflighted == WriteHeader(NewWriter, 200)

\* The paths of the OPTIONS requests.
PreflightPaths == {<<"/", "q", "u", "e", "r", "y">>, <<"/", "v", "/", "c">>}

\* ------------------------------------------------------------ actions
\* A request arrives in slot r and its handler runs up to executeQuery.
Dispatch(rq) ==
    IF rq.route = "query"
    THEN handleQuery(rq.method, rq.body)
    ELSE handleAPI(rq.method, rq.path, rq.query, rq.body)

Accept(r, rq, d) ==
    /\ pc[r] = "idle"
    /\ req' = [req EXCEPT ![r] = rq]
    /\ stmt' = [stmt EXCEPT ![r] = d.stmt]
    /\ resp' = [resp EXCEPT ![r] = d.w]
    /\ pc' = [pc EXCEPT ![r] = IF d.run THEN "call" ELSE "done"]
    /\ hdrs' = [hdrs EXCEPT ![r] = corsMiddleware(rq.method)]
    /\ UNCHANGED <<cursor, result, qerr, sent, nread, holders, tbl>>
    /\ UNCHANGED auxRest

Arrive(r, rq) == Accept(r, rq, Dispatch(rq))

\* An OPTIONS request: corsMiddleware answers it and no handler runs.
Preflight(r) ==
    \E p \in PreflightPaths :
        Accept(r, Request("cors", "OPTIONS", p, NoQuery, NoBody), Responded(Preflighted))

ServeQuery(r, methods, bodies) ==
    \E m \in methods, b \in bodies :
        Arrive(r, Request("query", m, <<"/", "q", "u", "e", "r", "y">>, NoQuery, b))

ServeAPI(r, methods, paths, queries, bodies) ==
    \E m \in methods, p \in paths, q \in queries, b \in bodies :
        Arrive(r, Request("api", m, p, q, b))

\* database/sql hands out a connection only while fewer than
\* MaxOpenConns are in use.
ConnAvailable_NoLimit == TRUE

ConnAvailable == Cardinality(holders) < MaxOpenConns

\* s.db.Query returns an error: the connection goes back to the pool and
\* executeQuery returns (nil, err).
DbQueryFail_Retry(r) ==
    /\ pc[r] = "call"
    /\ ConnAvailable
    /\ sent' = [sent EXCEPT ![r] = @ + 1]
    /\ UNCHANGED <<pc, req, stmt, cursor, result, qerr, resp, nread, holders, tbl>>
    /\ UNCHANGED auxVars

DbQueryFail(r) ==
    /\ pc[r] = "call"
    /\ ConnAvailable
    /\ sent' = [sent EXCEPT ![r] = @ + 1]
    /\ result' = [result EXCEPT ![r] = NilResult]
    /\ qerr' = [qerr EXCEPT ![r] = "query error"]
    /\ pc' = [pc EXCEPT ![r] = "ret"]
    /\ UNCHANGED <<req, stmt, cursor, resp, nread, holders, tbl>>
    /\ UNCHANGED auxVars

\* s.db.Query succeeds: the statement runs and its rows hold the
\* connection until they are closed.
DbQueryOk(r) ==
    /\ pc[r] = "call"
    /\ ConnAvailable
    /\ CanSucceed(stmt[r].text, tbl)
    /\ sent' = [sent EXCEPT ![r] = @ + 1]
    /\ holders' = holders \cup {r}
    /\ tbl' = TableAfter(stmt[r].text, tbl)
    /\ cursor' = [cursor EXCEPT ![r] = ResultRows(stmt[r].text, tbl)]
    /\ pc' = [pc EXCEPT ![r] = "cols"]
    /\ UNCHANGED <<req, stmt, result, qerr, resp, nread>>
    /\ UNCHANGED auxVars

\* rows.Columns()
ColumnsOk(r) ==
    /\ pc[r] = "cols"
    /\ pc' = [pc EXCEPT ![r] = "rows"]
    /\ UNCHANGED <<req, stmt, cursor, result, qerr, resp, sent, nread, holders, tbl>>
    /\ UNCHANGED auxVars

\* executeQuery returns (nil, err) and the deferred rows.Close() gives
\* the connection back.
ReturnError_KeepRows(r, err) ==
    /\ qerr' = [qerr EXCEPT ![r] = err]
    /\ cursor' = [cursor EXCEPT ![r] = <<>>]
    /\ holders' = holders \ {r}
    /\ pc' = [pc EXCEPT ![r] = "ret"]
    /\ UNCHANGED <<req, stmt, result, resp, sent, nread, tbl>>
    /\ UNCHANGED auxVars

ReturnError_NoClose(r, err) ==
    /\ result' = [result EXCEPT ![r] = NilResult]
    /\ qerr' = [qerr EXCEPT ![r] = err]
    /\ cursor' = [cursor EXCEPT ![r] = <<>>]
    /\ pc' = [pc EXCEPT ![r] = "ret"]
    /\ UNCHANGED <<req, stmt, resp, sent, nread, holders, tbl>>
    /\ UNCHANGED auxVars

ReturnError(r, err) ==
    /\ result' = [result EXCEPT ![r] = NilResult]
    /\ qerr' = [qerr EXCEPT ![r] = err]
    /\ cursor' = [cursor EXCEPT ![r] = <<>>]
    /\ holders' = holders \ {r}
    /\ pc' = [pc EXCEPT ![r] = "ret"]
    /\ UNCHANGED <<req, stmt, resp, sent, nread, tbl>>
    /\ UNCHANGED auxVars

ColumnsFail(r) ==
    /\ pc[r] = "cols"
    /\ ReturnError(r, "columns error")

\* rows.Next() is true and rows.Scan succeeds: one entry is appended.
ScanRow(r) ==
    /\ pc[r] = "rows"
    /\ cursor[r] /= <<>>
    /\ result' = [result EXCEPT ![r] =
                     AppendResult(@, RowEntry(Columns(stmt[r].text), Head(cursor[r])))]
    /\ cursor' = [cursor EXCEPT ![r] = Tail(@)]
    /\ nread' = [nread EXCEPT ![r] = @ + 1]
    /\ UNCHANGED <<pc, req, stmt, qerr, resp, sent, holders, tbl>>
    /\ UNCHANGED auxVars

\* rows.Next() is true and rows.Scan fails.
ScanFail(r) ==
    /\ pc[r] = "rows"
    /\ cursor[r] /= <<>>
    /\ ReturnError(r, "scan error")

\* rows.Next() is false with rows.Err() set.
IterFail(r) ==
    /\ pc[r] = "rows"
    /\ ReturnError(r, "iteration error")

IterEnd_KeepConn(r) ==
    /\ pc[r] = "rows"
    /\ cursor[r] = <<>>
    /\ pc' = [pc EXCEPT ![r] = "ret"]
    /\ UNCHANGED <<req, stmt, cursor, result, qerr, resp, sent, nread, holders, tbl>>
    /\ UNCHANGED auxVars

\* rows.Next() is false after the last row: the rows are closed and
\* executeQuery returns (result, nil).
IterEnd(r) ==
    /\ pc[r] = "rows"
    /\ cursor[r] = <<>>
    /\ holders' = holders \ {r}
    /\ pc' = [pc EXCEPT ![r] = "ret"]
    /\ UNCHANGED <<req, stmt, cursor, result, qerr, resp, sent, nread, tbl>>
    /\ UNCHANGED auxVars

\* The handler writes its response from what executeQuery returned.
Respond(r) ==
    /\ pc[r] = "ret"
    /\ resp' = [resp EXCEPT ![r] = HandlerTail(req[r].route, result[r], qerr[r])]
    /\ pc' = [pc EXCEPT ![r] = "done"]
    /\ UNCHANGED <<req, stmt, cursor, result, qerr, sent, nread, holders, tbl>>
    /\ UNCHANGED auxVars

\* The slot is free for the next request.
Reset(r) ==
    /\ pc[r] = "done"
    /\ pc' = [pc EXCEPT ![r] = "idle"]
    /\ req' = [req EXCEPT ![r] = NoReq]
    /\ stmt' = [stmt EXCEPT ![r] = NoStatement]
    /\ result' = [result EXCEPT ![r] = NilResult]
    /\ qerr' = [qerr EXCEPT ![r] = "none"]
    /\ resp' = [resp EXCEPT ![r] = NewWriter]
    /\ sent' = [sent EXCEPT ![r] = 0]
    /\ nread' = [nread EXCEPT ![r] = 0]
    /\ hdrs' = [hdrs EXCEPT ![r] = {}]
    /\ UNCHANGED <<cursor, holders, tbl>>
    /\ UNCHANGED auxRest

\* The steps of executeQuery and of the handler around it.
Step(r) ==
    \/ DbQueryFail(r)
    \/ DbQueryOk(r)
    \/ ColumnsOk(r)
    \/ ColumnsFail(r)
    \/ ScanRow(r)
    \/ ScanFail(r)
    \/ IterFail(r)
    \/ IterEnd(r)
    \/ Respond(r)
    \/ Reset(r)

\* One request at a time, with every input.
Next ==
    \/ ServeQuery(1, Methods, QueryBodies)
    \/ ServeAPI(1, Methods, ApiPaths, ApiQueries, ApiBodies)
    \/ Preflight(1)
    \/ Step(1)

Spec == Init /\ [][Next]_vars

\* Concurrent requests: every slot serves requests, with the inputs that
\* reach executeQuery.
ConcBodies == {Body("obj", t, <<>>, EmptyMap) : t \in {<<"S">>, <<"I">>}}
ConcPaths == {<<"/", "v", "/", "c">>}

NextConc ==
    \E r \in Reqs :
        \/ ServeQuery(r, {"POST"}, ConcBodies)
        \/ ServeAPI(r, {"GET"}, ConcPaths, {NoQuery}, {NoBody})
        \/ Step(r)

SpecConc == Init /\ [][NextConc]_vars

\* Concurrent /query requests under fair scheduling.  Every goroutine
\* that can take a step eventually takes one (weak fairness of Step), and
\* a request waiting in db.Query is eventually handed the connection when
\* it is released again and again (strong fairness of Acquire): the pool
\* hands a released connection to one of the waiting requests.
LiveBodies == {Body("obj", <<"S">>, <<>>, EmptyMap)}

Acquire(r) == DbQueryFail(r) \/ DbQueryOk(r)

NextLive ==
    \E r \in Reqs :
        \/ ServeQuery(r, {"POST"}, LiveBodies)
        \/ Step(r)

Fairness == \A r \in Reqs : WF_vars(Step(r)) /\ SF_vars(Acquire(r))

\* The table is empty or full.
InitLive == Init /\ tbl \in {0, MaxRows}

SpecLive == InitLive /\ [][NextLive]_vars /\ Fairness

\* ------------------------------------------------------------ the reverse proxy
ProxyPrefix == <<"/", "p", "r", "o", "x", "y", "/">>
Https == <<"h", "t", "t", "p", "s">>

\* url.Parse("https://" + hostPart), hostPart holding no '/': a '?' ends
\* the authority and starts the query, a space in the host is an error.
urlParse(hostPart) ==
    [err |-> \E i \in DOMAIN hostPart :
                /\ hostPart[i] = " "
                /\ (Index(hostPart, <<"?">>) = 0 \/ i < Index(hostPart, <<"?">>)),
     Scheme |-> Https,
     Host |-> IF Index(hostPart, <<"?">>) = 0 THEN hostPart
              ELSE SubSeq(hostPart, 1, Index(hostPart, <<"?">>) - 1),
     RawQuery |-> IF Index(hostPart, <<"?">>) = 0 THEN <<>>
                  ELSE SubSeq(hostPart, Index(hostPart, <<"?">>) + 1, Len(hostPart))]

\* The request the reverse proxy sends: the Director of
\* NewSingleHostReverseProxy(targetURL) sets scheme and host from the
\* target, joins the (empty) target path with the request path and joins
\* the target's query with the request's.
Forward(targetURL, hostHeader, subPath, targetQuery) ==
    [path |-> subPath,
     status |-> 0,
     rawQuery |-> IF targetURL.RawQuery = <<>> \/ targetQuery = <<>>
                  THEN targetURL.RawQuery \o targetQuery
                  ELSE targetURL.RawQuery \o <<"&">> \o targetQuery,
     forwarded |-> TRUE,
     scheme |-> targetURL.Scheme,
     urlHost |-> targetURL.Host,
     host |-> hostHeader]

BadTarget == [path |-> <<>>, status |-> 400, rawQuery |-> <<>>, forwarded |-> FALSE,
              scheme |-> <<>>, urlHost |-> <<>>, host |-> <<>>]

\* Steps 2 to 8 of handleProxy, pathParts being the split target path.
ProxyParts_NoRoot(pathParts, targetQuery) ==
    IF urlParse(pathParts[1]).err THEN BadTarget
    ELSE Forward(urlParse(pathParts[1]), urlParse(pathParts[1]).Host,
                 IF Len(pathParts) > 1 THEN <<"/">> \o pathParts[2] ELSE <<>>,
                 targetQuery)

ProxyParts(pathParts, targetQuery) ==
    IF urlParse(pathParts[1]).err THEN BadTarget
    ELSE Forward(urlParse(pathParts[1]), urlParse(pathParts[1]).Host,
                 IF Len(pathParts) > 1 THEN <<"/">> \o pathParts[2] ELSE <<"/">>,
                 targetQuery)

\* Server.handleProxy
handleProxy(path, rawQuery) ==
    ProxyParts(SplitN2(TrimPrefix(path, ProxyPrefix), "/"), rawQuery)

\* Characters of the part of a request path after "/proxy/".
ProxyChars == {"h", "/", "?", " "}

\* The paths the mux hands to handleProxy: "/proxy/" and a remainder,
\* without "//" (the mux redirects a path that is not clean).
ProxyRemainders ==
    {p \in UNION {[1 .. n -> ProxyChars] : n \in 0 .. MaxProxyLen} :
        /\ (IF Len(p) = 0 THEN TRUE ELSE p[1] /= "/")
        /\ \A i \in 1 .. (Len(p) - 1) : ~(p[i] = "/" /\ p[i + 1] = "/")}

ProxyQueries == {<<>>, <<"k">>}

\* The header lines of the upstream server's response.
UpstreamHeaders ==
    {{}, {<<"Access-Control-Allow-Origin", "https://example.org">>}}

\* The header lines of a proxied response: ReverseProxy adds the upstream
\* response's header lines to those already set on the writer.
ProxiedHeaders(set, out, up) == IF out.forwarded THEN set \cup up ELSE set

InitProxy == InitServer /\ InitAux /\ tbl = 0

ServeProxy ==
    /\ proxyReq = NoProxy
    /\ \E rem \in ProxyRemainders, q \in ProxyQueries :
        /\ proxyReq' = [path |-> ProxyPrefix \o rem, rawQuery |-> q]
        /\ proxyOut' = handleProxy(ProxyPrefix \o rem, q)
        /\ \E up \in UpstreamHeaders :
              auxHdrs' = ProxiedHeaders(corsMiddleware("GET"),
                                        handleProxy(ProxyPrefix \o rem, q), up)
    /\ UNCHANGED srvVars
    /\ UNCHANGED <<fs, staticReq, staticOut, hdrs, toolVars>>

ProxyDone ==
    /\ proxyReq /= NoProxy
    /\ proxyReq' = NoProxy
    /\ proxyOut' = NoProxyOut
    /\ auxHdrs' = {}
    /\ UNCHANGED srvVars
    /\ UNCHANGED <<fs, staticReq, staticOut, hdrs, toolVars>>

NextProxy == ServeProxy \/ ProxyDone

SpecProxy == InitProxy /\ [][NextProxy]_vars

\* ------------------------------------------------------------ static files
\* "i" stands for the file name index.html.
IndexHtml == <<"i">>
IndexPage == <<"/", "i">>

\* The file a name reaches from the working directory: a leading "./" is
\* dropped.
CleanName(name) == TrimPrefix(name, <<".", "/">>)

\* os.Stat(filePath) does not report "not exist"
FileExists(name, files) == CleanName(name) \in files

StaticOut(served, name, status) == [name |-> name, status |-> status, served |-> served]

\* http.ServeFile(w, r, name): a request path ending in "/index.html" is
\* redirected to "./"; else the file is served, or 404 when it is missing.
ServeFile(path, name, files) ==
    IF HasSuffix(path, IndexPage) THEN StaticOut(FALSE, <<>>, 301)
    ELSE IF FileExists(name, files) THEN StaticOut(TRUE, CleanName(name), 200)
    ELSE StaticOut(FALSE, <<>>, 404)

\* The handler main registers for "/".
staticHandler_NoRoot(path, files) ==
    IF ~FileExists(<<".">> \o path, files) THEN StaticOut(FALSE, <<>>, 404)
    ELSE ServeFile(path, <<".">> \o path, files)

staticHandler(path, files) ==
    IF path = <<"/">> THEN ServeFile(path, IndexHtml, files)
    ELSE IF ~FileExists(<<".">> \o path, files) THEN StaticOut(FALSE, <<>>, 404)
    ELSE ServeFile(path, <<".">> \o path, files)

StaticChars == {"/", "a", "i"}

\* Request paths of the "/" route: they begin with "/" and hold no "//".
StaticPaths ==
    {p \in UNION {[1 .. n -> StaticChars] : n \in 1 .. MaxStaticLen} :
        /\ p[1] = "/"
        /\ \A i \in 1 .. (Len(p) - 1) : ~(p[i] = "/" /\ p[i + 1] = "/")}

\* The regular files the working directory may hold.
FileUniverse == {<<"i">>, <<"a">>, <<"a", "/", "i">>, <<"i", "/", "a">>}

InitStatic ==
    /\ InitServer
    /\ tbl = 0
    /\ proxyReq = NoProxy
    /\ proxyOut = NoProxyOut
    /\ fs \in SUBSET FileUniverse
    /\ staticReq = NoStatic
    /\ staticOut = NoStaticOut
    /\ InitHdrs
    /\ InitTools

ServeStatic ==
    /\ staticReq = NoStatic
    /\ \E m \in {"GET", "POST"}, p \in StaticPaths :
        /\ staticReq' = [path |-> p, method |-> m]
        /\ staticOut' = staticHandler(p, fs)
        /\ auxHdrs' = corsMiddleware(m)
    /\ UNCHANGED srvVars
    /\ UNCHANGED <<proxyReq, proxyOut, fs, hdrs, toolVars>>

StaticDone ==
    /\ staticReq /= NoStatic
    /\ staticReq' = NoStatic
    /\ staticOut' = NoStaticOut
    /\ auxHdrs' = {}
    /\ UNCHANGED srvVars
    /\ UNCHANGED <<proxyReq, proxyOut, fs, hdrs, toolVars>>

NextStatic == ServeStatic \/ StaticDone

SpecStatic == InitStatic /\ [][NextStatic]_vars

\* ------------------------------------------------------------ all routes
\* Every route behind corsMiddleware(mux), one request at a time.
InitRoutes ==
    /\ InitServer
    /\ InitProxyOff
    /\ fs \in {{}, {IndexHtml, <<"a">>}}
    /\ staticReq = NoStatic
    /\ staticOut = NoStaticOut
    /\ InitHdrs
    /\ InitTools

\* No request is being served.
Quiet ==
    /\ \A r \in Reqs : pc[r] = "idle"
    /\ proxyReq = NoProxy
    /\ staticReq = NoStatic

NextRoutes ==
    \/ (Quiet /\ ServeQuery(1, Methods, QueryBodies))
    \/ (Quiet /\ ServeAPI(1, Methods, ApiPaths, ApiQueries, ApiBodies))
    \/ (Quiet /\ Preflight(1))
    \/ Step(1)
    \/ (Quiet /\ ServeProxy)
    \/ ProxyDone
    \/ (Quiet /\ ServeStatic)
    \/ StaticDone

SpecRoutes == InitRoutes /\ [][NextRoutes]_vars

\* ------------------------------------------------------------ main
\* The options main defines with the flag package.
DefinedFlags == {"port", "p", "extension", "api", "show-responses", "s"}

\* The options a command line may hold.
CommandLines == SUBSET {"api", "port", "s", "pg-conn"}

\* basePath values of an API description.
BasePaths ==
    {<<>>, <<"/">>, <<"/", "v">>, <<"/", "v", "/">>,
     <<"/", "p", "r", "o", "x", "y">>, ProxyPrefix,
     <<"/", "q", "u", "e", "r", "y">>}

QueryPattern == <<"/", "q", "u", "e", "r", "y">>
RootPattern == <<"/">>

\* flag.Parse with the ExitOnError policy of flag.CommandLine: an option
\* that is not defined ends the process with status 2.
flagParse(line) == IF line \subseteq DefinedFlags THEN "parsed" ELSE "exit"

\* The pattern main registers handleAPI under.
ApiPattern(base) == IF HasSuffix(base, <<"/">>) THEN base ELSE base \o <<"/">>

\* The patterns main registers, in order: the API route when a
\* description was loaded, then "/proxy/", "/query" and "/".
Registrations(loaded, base) ==
    (IF loaded THEN <<ApiPattern(base)>> ELSE <<>>)
        \o <<ProxyPrefix, QueryPattern, RootPattern>>

\* mux.HandleFunc, one call after the other: registering a pattern that
\* is already registered panics.
RECURSIVE HandleFuncs(_, _, _)
HandleFuncs(patterns, k, mux) ==
    IF k > Len(patterns) THEN <<mux, "listening">>
    ELSE IF patterns[k] \in Range(mux) THEN <<mux, "panic">>
    ELSE HandleFuncs(patterns, k + 1, Append(mux, patterns[k]))

\* Request paths below the base path that a declared template matches.
MatchedPaths == {<<"/", "c">>, <<"/", "c", "/", "7">>, <<"/", "o">>}

\* A base path joined with a path.
JoinPath(base, path) ==
    IF HasSuffix(base, <<"/">>) THEN base \o Tail(path) ELSE base \o path

\* findMatchingEndpoint of a server whose description has the base path
\* base.
findMatchingEndpointAt(requestPath, base) ==
    MatchStripped(StripBasePath(requestPath, base))

InitMain ==
    /\ InitServer
    /\ tbl = 0
    /\ InitProxyOff
    /\ InitStaticOff
    /\ InitHdrs
    /\ InitPathOff
    /\ InitPatchOff
    /\ InitExtOff
    /\ args \in CommandLines
    /\ basePath \in (IF "api" \in args THEN BasePaths ELSE {<<>>})
    /\ mainPc = "start"
    /\ routes = <<>>
    /\ dbName = ""
    /\ lookup = <<>>

mainRest == <<srvVars, proxyReq, proxyOut, fs, staticReq, staticOut, hdrs, auxHdrs,
              pathVars, patchVars, extVars>>

\* flag.Parse()
ParseFlags ==
    /\ mainPc = "start"
    /\ mainPc' = flagParse(args)
    /\ UNCHANGED <<args, basePath, routes, dbName, lookup>>
    /\ UNCHANGED mainRest

\* NewServer("data.db", ...)
OpenServer ==
    /\ mainPc = "parsed"
    /\ dbName' = "data.db"
    /\ mainPc' = "server"
    /\ UNCHANGED <<args, basePath, routes, lookup>>
    /\ UNCHANGED mainRest

\* The route registration of main, up to http.ListenAndServe.
RegisterRoutes ==
    /\ mainPc = "server"
    /\ routes' = HandleFuncs(Registrations("api" \in args, basePath), 1, <<>>)[1]
    /\ mainPc' = HandleFuncs(Registrations("api" \in args, basePath), 1, <<>>)[2]
    /\ UNCHANGED <<args, basePath, dbName, lookup>>
    /\ UNCHANGED mainRest

\* A request below the base path reaches handleAPI, which looks its
\* endpoint up.
LookupEndpoint ==
    /\ mainPc = "listening"
    /\ "api" \in args
    /\ lookup = <<>>
    /\ \E p \in MatchedPaths :
          lookup' = <<JoinPath(basePath, p),
                      findMatchingEndpointAt(JoinPath(basePath, p), basePath).idx>>
    /\ UNCHANGED <<args, basePath, mainPc, routes, dbName>>
    /\ UNCHANGED mainRest

LookupDone ==
    /\ lookup /= <<>>
    /\ lookup' = <<>>
    /\ UNCHANGED <<args, basePath, mainPc, routes, dbName>>
    /\ UNCHANGED mainRest

NextMain == ParseFlags \/ OpenServer \/ RegisterRoutes \/ LookupEndpoint \/ LookupDone

SpecMain == InitMain /\ [][NextMain]_vars

\* ------------------------------------------------------------ path templates
TmplChars == {"/", ":", "a", "b"}
PathChars == {"/", "a", "1"}

\* Endpoint path templates of an API description.
Templates ==
    {t \in UNION {[1 .. n -> TmplChars] : n \in 1 .. MaxTmplLen} : t[1] = "/"}

\* Request paths handleAPI receives: clean paths.
TemplatePaths ==
    {p \in UNION {[1 .. n -> PathChars] : n \in 1 .. MaxTmplLen} :
        /\ p[1] = "/"
        /\ \A i \in 1 .. (Len(p) - 1) : ~(p[i] = "/" /\ p[i + 1] = "/")}

InitPath ==
    /\ InitServer
    /\ tbl = 0
    /\ InitProxyOff
    /\ InitStaticOff
    /\ InitHdrs
    /\ InitMainOff
    /\ InitPatchOff
    /\ InitExtOff
    /\ tmpl \in Templates
    /\ rpath \in TemplatePaths
    /\ pathOut = <<FALSE, EmptyMap>>

pathRest == <<srvVars, proxyReq, proxyOut, fs, staticReq, staticOut, hdrs, auxHdrs,
              mainVars, patchVars, extVars>>

\* findMatchingEndpoint found that the template's regexp matches the
\* path and calls extractPathParams.
ExtractParams ==
    /\ ~pathOut[1]
    /\ MatchString(pathToRegexp(tmpl), rpath)
    /\ pathOut' = <<TRUE, extractPathParams(rpath, tmpl, pathToRegexp(tmpl))>>
    /\ UNCHANGED <<tmpl, rpath>>
    /\ UNCHANGED pathRest

\* The next request path for the same template.
NextPath ==
    /\ pathOut[1]
    /\ rpath' \in TemplatePaths
    /\ pathOut' = <<FALSE, EmptyMap>>
    /\ UNCHANGED tmpl
    /\ UNCHANGED pathRest

NextTemplate == ExtractParams \/ NextPath

SpecPath == InitPath /\ [][NextTemplate]_vars

\* ------------------------------------------------------------ the middleware
\* corsMiddleware(mux) is the handler http.ListenAndServe serves: every
\* request of every route enters through it.
PassedOn_All(method) == TRUE

\* `if r.Method == "OPTIONS" { w.WriteHeader(http.StatusOK); return }`:
\* next.ServeHTTP is reached by every other method only.
PassedOn(method) == method /= "OPTIONS"

\* What the wrapped handler does with a /query or API request.
corsThen(rq) == IF PassedOn(rq.method) THEN Dispatch(rq) ELSE Responded(Preflighted)

CorsMethods == {"GET", "POST", "OPTIONS"}
CorsApiPaths == {<<"/", "v", "/", "c">>, <<"/", "v", "/", "o">>, <<"/", "v", "/", "x">>}
CorsProxyPaths == {ProxyPrefix \o <<"h">>, ProxyPrefix \o <<"h", "/", "h">>, ProxyPrefix \o <<" ">>}
CorsStaticPaths == {<<"/">>, <<"/", "a">>, <<"/", "i">>}

CorsQuery(r) ==
    \E m \in CorsMethods, b \in QueryBodies :
        Accept(r, Request("query", m, QueryPattern, NoQuery, b),
               corsThen(Request("query", m, QueryPattern, NoQuery, b)))

CorsAPI(r) ==
    \E m \in CorsMethods, p \in CorsApiPaths :
        Accept(r, Request("api", m, p, NoQuery, NoBody),
               corsThen(Request("api", m, p, NoQuery, NoBody)))

\* A request below "/proxy/": handleProxy runs when the middleware passes
\* the request on; the upstream server answers a forwarded request.
CorsProxy(r) ==
    /\ pc[r] = "idle"
    /\ \E m \in CorsMethods, p \in CorsProxyPaths, upstream \in {200, 404} :
        /\ req' = [req EXCEPT ![r] = Request("proxy", m, p, NoQuery, NoBody)]
        /\ hdrs' = [hdrs EXCEPT ![r] = corsMiddleware(m)]
        /\ IF PassedOn(m)
           THEN /\ proxyReq' = [path |-> p, rawQuery |-> <<>>]
                /\ proxyOut' = handleProxy(p, <<>>)
                /\ resp' = [resp EXCEPT ![r] =
                        WriteHeader(NewWriter, IF handleProxy(p, <<>>).forwarded
                                               THEN upstream
                                               ELSE handleProxy(p, <<>>).status)]
           ELSE /\ resp' = [resp EXCEPT ![r] = Preflighted]
                /\ UNCHANGED <<proxyReq, proxyOut>>
    /\ pc' = [pc EXCEPT ![r] = "done"]
    /\ UNCHANGED <<stmt, cursor, result, qerr, sent, nread, holders, tbl>>
    /\ UNCHANGED <<fs, staticReq, staticOut, auxHdrs, toolVars>>

\* A request of the "/" route.
CorsStatic(r) ==
    /\ pc[r] = "idle"
    /\ \E m \in CorsMethods, p \in CorsStaticPaths :
        /\ req' = [req EXCEPT ![r] = Request("static", m, p, NoQuery, NoBody)]
        /\ hdrs' = [hdrs EXCEPT ![r] = corsMiddleware(m)]
        /\ IF PassedOn(m)
           THEN /\ staticReq' = [path |-> p, method |-> m]
                /\ staticOut' = staticHandler(p, fs)
                /\ resp' = [resp EXCEPT ![r] =
                        WriteHeader(NewWriter, staticHandler(p, fs).status)]
           ELSE /\ resp' = [resp EXCEPT ![r] = Preflighted]
                /\ UNCHANGED <<staticReq, staticOut>>
    /\ pc' = [pc EXCEPT ![r] = "done"]
    /\ UNCHANGED <<stmt, cursor, result, qerr, sent, nread, holders, tbl>>
    /\ UNCHANGED <<proxyReq, proxyOut, fs, auxHdrs, toolVars>>

NextCors ==
    \/ (Quiet /\ CorsQuery(1))
    \/ (Quiet /\ CorsAPI(1))
    \/ (Quiet /\ CorsProxy(1))
    \/ (Quiet /\ CorsStatic(1))
    \/ Step(1)
    \/ ProxyDone
    \/ StaticDone

SpecCors == InitRoutes /\ [][NextCors]_vars

\* ------------------------------------------------------------ endpoint lists
\* findMatchingEndpoint of a server whose API description declares the
\* endpoint paths `paths`, in this order.  NewServer compiles
\* pathRegexps[p] = pathToRegexp(p) for every declared p, so the regexp
\* looked up for an endpoint is the one compiled from its own path.

\* The endpoints whose regexp matches path.
MatchingEndpoints(paths, path) ==
    {k \in DOMAIN paths : MatchString(pathToRegexp(paths[k]), path)}

FirstMatchIn_Last(paths, path) ==
    LET hits == MatchingEndpoints(paths, path)
    IN IF hits = {} THEN 0 ELSE CHOOSE k \in hits : \A j \in hits : j <= k

\* `for _, endpoint := range s.apiDesc.Endpoints`: the loop returns at
\* the first endpoint whose regexp matches; 0 when it runs to its end.
FirstMatchIn(paths, path) ==
    LET hits == MatchingEndpoints(paths, path)
    IN IF hits = {} THEN 0 ELSE CHOOSE k \in hits : \A j \in hits : k <= j

\* `return &endpoint, params`: the endpoint's position and the path
\* parameters taken from the path that matched.
FoundIn(paths, idx, path) ==
    <<idx, extractPathParams(path, paths[idx], pathToRegexp(paths[idx]))>>

\* `return nil, nil`
NoEndpoint == <<0, EmptyMap>>

\* The loop over the normalized path, then the fallback loop over the
\* original path when the two differ.
MatchLoopsIn(paths, requestPath, normalizedPath) ==
    IF FirstMatchIn(paths, normalizedPath) /= 0
    THEN FoundIn(paths, FirstMatchIn(paths, normalizedPath), normalizedPath)
    ELSE IF normalizedPath /= requestPath /\ FirstMatchIn(paths, requestPath) /= 0
    THEN FoundIn(paths, FirstMatchIn(paths, requestPath), requestPath)
    ELSE NoEndpoint

MatchStrippedIn(paths, requestPath) ==
    MatchLoopsIn(paths, requestPath, NormalizePath(requestPath))

\* Server.findMatchingEndpoint for the declared paths and base path.
findMatchingEndpointIn(paths, base, requestPath) ==
    MatchStrippedIn(paths, StripBasePath(requestPath, base))

\* Declared endpoint paths: every text of up to three of these characters
\* that begins with "/" and has no empty segment inside.
DeclaredPaths ==
    {t \in UNION {[1 .. n -> {"/", ":", "a"}] : n \in 1 .. 3} :
        /\ t[1] = "/"
        /\ \A i \in 1 .. (Len(t) - 1) : ~(t[i] = "/" /\ t[i + 1] = "/")}

\* The endpoint lists of an API description: one to three endpoints.
EndpointLists == UNION {[1 .. n -> DeclaredPaths] : n \in 1 .. 3}

\* basePath of the description: none, without and with a trailing slash.
MatchBasePaths == {<<>>, <<"/", "a">>, <<"/", "a", "/">>}

\* Request paths: clean paths, as the mux hands them to handleAPI.
RequestPaths ==
    {p \in UNION {[1 .. n -> {"/", "a"}] : n \in 1 .. MaxPathLen} :
        /\ p[1] = "/"
        /\ \A i \in 1 .. (Len(p) - 1) : ~(p[i] = "/" /\ p[i + 1] = "/")}

InitMatch ==
    /\ InitServer
    /\ tbl = 0
    /\ InitProxyOff
    /\ InitStaticOff
    /\ InitHdrs
    /\ InitPathOff
    /\ InitPatchOff
    /\ args = {}
    /\ basePath \in MatchBasePaths
    /\ mainPc = "off"
    /\ routes = <<>>
    /\ dbName = ""
    /\ lookup = <<>>
    /\ endpoints \in EndpointLists
    /\ answers = {}
    /\ InitScriptsOff
    /\ InitBootOff
    /\ shown = <<>>

matchRest == <<srvVars, proxyReq, proxyOut, fs, staticReq, staticOut, hdrs, auxHdrs,
               mainVars, pathVars, patchVars, bootVars, shown, scriptVars>>

\* handleAPI looks the endpoint of a request path up; the path is kept
\* with the endpoint and the parameters it got.
MatchRequest ==
    /\ Cardinality(answers) < 2
    /\ \E p \in RequestPaths :
          /\ \A a \in answers : a[1] /= p
          /\ \E found \in {findMatchingEndpointIn(endpoints, basePath, p)} :
                answers' = answers \cup {<<p, found[1], found[2]>>}
    /\ UNCHANGED endpoints
    /\ UNCHANGED matchRest

\* The requests looked at so far are forgotten.
MatchForget ==
    /\ answers /= {}
    /\ answers' = {}
    /\ UNCHANGED endpoints
    /\ UNCHANGED matchRest

NextMatch == MatchRequest \/ MatchForget

SpecMatch == InitMatch /\ [][NextMatch]_vars

\* ------------------------------------------------------------ NewServer
\* The steps of NewServer that can fail: sql.Open, the ATTACH and PRAGMA
\* statements, filepath.Abs, os.Chmod and load_extension for the
\* extension, os.Stat, os.ReadFile and json.Unmarshal for the API
\* description.
ExtensionSteps == {"abs", "chmod", "load"}
ApiSteps == {"stat", "read", "parse"}

\* The sets of steps that can fail in one call: nothing runs after a
\* failed sql.Open; the extension steps run when --extension is given;
\* of the API description steps the first that fails ends the loading.
FailureSets(line) ==
    {{"open"}} \cup
    {db \cup ext \cup api :
        db \in SUBSET {"attach", "pragma"},
        ext \in (IF "extension" \in line THEN SUBSET ExtensionSteps ELSE {{}}),
        api \in (IF "api" \in line THEN {{}} \cup {{s} : s \in ApiSteps} ELSE {{}})}

NewServerErr_AnyFailure(failed) == failed /= {}

\* NewServer returns an error: `if err != nil { return nil, err }` after
\* sql.Open is the only error return.
NewServerErr(failed) == "open" \in failed

\* server.apiDesc after NewServer.
LoadedApi(line, failed) ==
    IF "api" \in line /\ failed \cap ApiSteps = {} THEN "loaded" ELSE "nil"

CompiledPaths_ParamsOnly(paths) ==
    {paths[k] : k \in {j \in DOMAIN paths : Index(paths[j], <<":">>) /= 0}}

\* The keys of server.pathRegexps after the precompile loop over the
\* loaded description's endpoints.
CompiledPaths(paths) == {paths[k] : k \in DOMAIN paths}

\* The showResponses argument main passes.
ShowFlags == {"show-responses", "s"}
showResponsesEnabled(line) == line \cap ShowFlags /= {}

BootLines == SUBSET {"api", "extension", "s"}
BootEndpoints ==
    {<< <<"/", "c">> >>, << <<"/", "c">>, <<"/", "c", "/", ":", "i">> >>,
     << <<"/", "c">>, <<"/", "c">> >>}
BootPaths == {<<"/", "v", "/", "c">>, <<"/", "v", "/", "c", "/", "7">>, <<"/", "c">>, <<"/", "x">>}

InitBoot ==
    /\ InitServer
    /\ tbl = 0
    /\ InitProxyOff
    /\ InitStaticOff
    /\ InitHdrs
    /\ InitPathOff
    /\ InitPatchOff
    /\ args \in BootLines
    /\ basePath \in (IF "api" \in args THEN {<<>>, <<"/", "v">>} ELSE {<<>>})
    /\ endpoints \in (IF "api" \in args THEN BootEndpoints ELSE {<<>>})
    /\ mainPc = "parsed"
    /\ routes = <<>>
    /\ dbName = ""
    /\ lookup = <<>>
    /\ answers = {}
    /\ InitScriptsOff
    /\ InitBootOff
    /\ shown = <<>>

bootRest == <<srvVars, proxyReq, proxyOut, fs, staticReq, staticOut, hdrs, auxHdrs,
              pathVars, patchVars, shown, scriptVars>>

\* main calls NewServer("data.db", *extension, *apiDesc, showResponsesEnabled)
\* and ends with log.Fatal when it returns an error.
BootNewServer ==
    /\ mainPc = "parsed"
    /\ \E failed \in FailureSets(args) :
          /\ bootFailed' = failed
          /\ mainPc' = IF NewServerErr(failed) THEN "fatal" ELSE "server"
          /\ srvApi' = IF NewServerErr(failed) THEN "nil" ELSE LoadedApi(args, failed)
          /\ srvRegexps' = IF ~NewServerErr(failed) /\ LoadedApi(args, failed) = "loaded"
                           THEN CompiledPaths(endpoints) ELSE {}
          /\ srvShow' = (~NewServerErr(failed) /\ showResponsesEnabled(args))
    /\ dbName' = "data.db"
    /\ UNCHANGED <<args, basePath, routes, lookup, endpoints, answers>>
    /\ UNCHANGED bootRest

\* The route registration of main: the API route only when
\* server.apiDesc is not nil.
BootRegister ==
    /\ mainPc = "server"
    /\ routes' = HandleFuncs(Registrations(srvApi = "loaded", basePath), 1, <<>>)[1]
    /\ mainPc' = HandleFuncs(Registrations(srvApi = "loaded", basePath), 1, <<>>)[2]
    /\ UNCHANGED <<args, basePath, dbName, lookup, endpoints, answers>>
    /\ UNCHANGED bootVars
    /\ UNCHANGED bootRest

\* `re, exists := s.pathRegexps[endpoint.Path]; if !exists { continue }`:
\* an endpoint without a compiled regexp is passed over by both loops;
\* its place is kept by the empty path, which no request path matches.
WithRegexp(paths, regs) ==
    [k \in DOMAIN paths |-> IF paths[k] \in regs THEN paths[k] ELSE <<>>]

\* A request is served: findMatchingEndpoint returns nil when apiDesc is
\* nil, and else reads apiDesc and pathRegexps.
BootLookup ==
    /\ mainPc = "listening"
    /\ lookup = <<>>
    /\ \E p \in BootPaths :
          lookup' = <<p, IF srvApi = "nil" THEN 0
                         ELSE findMatchingEndpointIn(WithRegexp(endpoints, srvRegexps),
                                                     basePath, p)[1]>>
    /\ UNCHANGED <<args, basePath, mainPc, routes, dbName, endpoints, answers>>
    /\ UNCHANGED bootVars
    /\ UNCHANGED bootRest

BootLookupDone ==
    /\ mainPc = "listening"
    /\ lookup /= <<>>
    /\ lookup' = <<>>
    /\ UNCHANGED <<args, basePath, mainPc, routes, dbName, endpoints, answers>>
    /\ UNCHANGED bootVars
    /\ UNCHANGED bootRest

NextBoot == BootNewServer \/ BootRegister \/ BootLookup \/ BootLookupDone

SpecBoot == InitBoot /\ [][NextBoot]_vars

\* ------------------------------------------------------------ --show-responses
\* The result slice executeQuery builds from rows k .. Len(rows) of a
\* statement's result set.
RECURSIVE BuildResult(_, _, _, _)
BuildResult(columns, rows, k, res) ==
    IF k > Len(rows) THEN res
    ELSE BuildResult(columns, rows, k + 1, AppendResult(res, RowEntry(columns, rows[k])))

\* What `if s.showResponses { json.MarshalIndent(result, ...) }` logs.
ResponseLog(show, res) ==
    IF ~show THEN <<>>
    ELSE IF jsonMarshal(res).ok THEN <<"Response">>
    ELSE <<"Error marshaling response for logging">>

executeQueryEnd_FailOnLog(show, res) ==
    IF show /\ ~jsonMarshal(res).ok
    THEN <<NilResult, "marshal", ResponseLog(show, res)>>
    ELSE <<res, "none", ResponseLog(show, res)>>

\* The end of executeQuery after the rows were read: the logging branch,
\* then `return result, nil`.
executeQueryEnd(show, res) == <<res, "none", ResponseLog(show, res)>>

\* executeQuery of a statement over a table of n rows, with what it
\* logs: (result, err, log lines).
executeQueryLogged(show, text, n) ==
    IF ~CanSucceed(text, n) THEN <<NilResult, "query", <<>>>>
    ELSE executeQueryEnd(show, BuildResult(Columns(text), ResultRows(text, n), 1, NilResult))

\* What sendJSONResponse logs: nothing when json.Marshal failed (it has
\* returned), else "Sending response" when showResponses is set.
SendLog(show, data) ==
    IF show /\ jsonMarshal(data).ok THEN <<"Sending response">> ELSE <<>>

\* The handler from executeQuery to the response written, with the
\* lines logged on the way: (response, log lines).
HandlerLogged(show, route, ret) ==
    IF ret[2] /= "none" THEN <<HandlerTail(route, ret[1], ret[2]), ret[3]>>
    ELSE <<sendJSONResponse(NewWriter, ret[1], 200), ret[3] \o SendLog(show, ret[1])>>

\* A server started with the command line `line` answers a request that
\* runs the statement.
ServedWith(line, route, text, n) ==
    HandlerLogged(showResponsesEnabled(line), route,
                  executeQueryLogged(showResponsesEnabled(line), text, n))

InitShow ==
    /\ InitServer
    /\ InitProxyOff
    /\ InitStaticOff
    /\ InitHdrs
    /\ InitPathOff
    /\ InitPatchOff
    /\ InitMatchOff
    /\ InitBootOff
    /\ args \in SUBSET ShowFlags
    /\ basePath = <<>>
    /\ mainPc = "off"
    /\ routes = <<>>
    /\ dbName = ""
    /\ lookup = <<>>
    /\ shown = <<>>
    /\ InitScriptsOff

\* The same request is answered over the same table by the server as
\* started and by a server started without the show-responses options.
ShowServe ==
    /\ shown = <<>>
    /\ \E route \in {"query", "api"}, text \in QueryTexts :
          shown' = <<route, text, ServedWith(args, route, text, tbl),
                                  ServedWith(args \ ShowFlags, route, text, tbl)>>
    /\ UNCHANGED <<srvVars, proxyReq, proxyOut, fs, staticReq, staticOut, hdrs, auxHdrs>>
    /\ UNCHANGED <<mainVars, pathVars, patchVars, matchVars, bootVars, scriptVars>>

ShowDone ==
    /\ shown /= <<>>
    /\ shown' = <<>>
    /\ UNCHANGED <<srvVars, proxyReq, proxyOut, fs, staticReq, staticOut, hdrs, auxHdrs>>
    /\ UNCHANGED <<mainVars, pathVars, patchVars, matchVars, bootVars, scriptVars>>

NextShow == ShowServe \/ ShowDone

SpecShow == InitShow /\ [][NextShow]_vars

\* ------------------------------------------------------------ the driver patch
\* prepare-go-sqlite3.sh works on the lines of sqlite3.go.  A line is
\* "ifnil" when it holds the text `if db == nil {`, "ifrv" for another
\* opening if, "return", "close" for a closing brace, "enable" for the
\* inserted call, "stmt" for any other statement.
IfNilLine == "ifnil"
EnableLine == "enable"

\* The pieces a source file is made of: a statement, the nil check with
\* its return, another check with its return.
UnitLines(u) ==
    IF u = "stmt" THEN <<"stmt">>
    ELSE IF u = "nilcheck" THEN <<IfNilLine, "return", "close">>
    ELSE <<"ifrv", "return", "close">>

RECURSIVE Flatten(_, _)
Flatten(units, k) ==
    IF k > Len(units) THEN <<>> ELSE UnitLines(units[k]) \o Flatten(units, k + 1)

\* The files git clone may deliver.
SourceFiles ==
    {Flatten(u, 1) :
        u \in UNION {[1 .. n -> {"stmt", "nilcheck", "rvcheck"}] : n \in 1 .. MaxUnits}}

\* grep -q 'if db == nil {' sqlite3.go
GrepIfNil(lines) == IfNilLine \in Range(lines)

\* sed -i '/if db == nil {/a C.sqlite3_enable_load_extension(db, 1);':
\* the call is appended after every line that holds the pattern.
RECURSIVE SedAppend(_, _)
SedAppend(lines, k) ==
    IF k > Len(lines) THEN <<>>
    ELSE (IF lines[k] = IfNilLine THEN <<lines[k], EnableLine>> ELSE <<lines[k]>>)
            \o SedAppend(lines, k + 1)

\* The line after the block that opens at line k.
RECURSIVE AfterBlock(_, _)
AfterBlock(lines, k) ==
    IF k > Len(lines) THEN k
    ELSE IF lines[k] = "close" THEN k + 1
    ELSE AfterBlock(lines, k + 1)

\* Open of the patched driver, run from line k with the return code of
\* sqlite3_open being SQLITE_OK: how often the inserted call is executed.
RECURSIVE RunOpen(_, _, _, _)
RunOpen(lines, k, nil, count) ==
    IF k > Len(lines) THEN count
    ELSE IF lines[k] = "return" THEN count
    ELSE IF lines[k] = EnableLine THEN RunOpen(lines, k + 1, nil, count + 1)
    ELSE IF lines[k] = IfNilLine /\ ~nil THEN RunOpen(lines, AfterBlock(lines, k), nil, count)
    ELSE IF lines[k] = "ifrv" THEN RunOpen(lines, AfterBlock(lines, k), nil, count)
    ELSE RunOpen(lines, k + 1, nil, count)

InitPatch ==
    /\ InitServer
    /\ tbl = 0
    /\ InitProxyOff
    /\ InitStaticOff
    /\ InitHdrs
    /\ InitMainOff
    /\ InitPathOff
    /\ InitExtOff
    /\ file \in SourceFiles
    /\ patchPc = "cloned"
    /\ dbNil \in BOOLEAN
    /\ enabled = 0

patchRest == <<srvVars, proxyReq, proxyOut, fs, staticReq, staticOut, hdrs, auxHdrs,
               mainVars, pathVars, extVars>>

\* The script finds no patch target and exits with status 1.
PatchFails ==
    /\ patchPc = "cloned"
    /\ ~GrepIfNil(file)
    /\ patchPc' = "failed"
    /\ UNCHANGED <<file, dbNil, enabled>>
    /\ UNCHANGED patchRest

\* The script patches the file.
PatchFile ==
    /\ patchPc = "cloned"
    /\ GrepIfNil(file)
    /\ file' = SedAppend(file, 1)
    /\ patchPc' = "patched"
    /\ UNCHANGED <<dbNil, enabled>>
    /\ UNCHANGED patchRest

\* A database handle is opened with the patched driver.
OpenDb ==
    /\ patchPc = "patched"
    /\ enabled' = RunOpen(file, 1, dbNil, 0)
    /\ patchPc' = "opened"
    /\ UNCHANGED <<file, dbNil>>
    /\ UNCHANGED patchRest

NextPatch == PatchFails \/ PatchFile \/ OpenDb

SpecPatch == InitPatch /\ [][NextPatch]_vars

\* ------------------------------------------------------------ build-unified.sh
\* What may hold of the machine the script runs on: go.mod holds the
\* replace directive, sqlite3.go exists at the replaced path, sqlite3.go
\* matches sqlite3_enable_load_extension.*1, the extension file is in
\* the working directory, the extension can be downloaded and unpacked,
\* the platform is darwin/arm64, the custom SQLite can be fetched and
\* built, go build succeeds.
BuildFacts == {"replace", "sqlite3.go", "call", "extension", "download",
               "darwin_arm64", "sqlite", "compiles"}

\* A file that does not exist holds no call.
BuildEnvs == {e \in SUBSET BuildFacts : "call" \in e => "sqlite3.go" \in e}

InitBuild ==
    /\ InitServer
    /\ tbl = 0
    /\ InitProxyOff
    /\ InitStaticOff
    /\ InitHdrs
    /\ InitMainOff
    /\ InitPathOff
    /\ InitPatchOff
    /\ InitMatchOff
    /\ InitBootOff
    /\ shown = <<>>
    /\ InitRepatchOff
    /\ buildEnv \in BuildEnvs
    /\ buildPc = "start"
    /\ buildOut = <<>>

buildRest == <<srvVars, proxyReq, proxyOut, fs, staticReq, staticOut, hdrs, auxHdrs,
               mainVars, pathVars, patchVars, matchVars, bootVars, shown,
               goTree, goPc, goFirst, goConn>>

\* if ! grep -q "replace github.com/mattn/go-sqlite3" go.mod; then ... exit 1
GrepReplace(env) == "replace" \in env

\* if [ ! -f "${GO_SQLITE3_PATH}/sqlite3.go" ]; then ... exit 1
HasSqlite3Go(env) == "sqlite3.go" \in env

\* grep -q "sqlite3_enable_load_extension.*1" "${GO_SQLITE3_PATH}/sqlite3.go"
GrepEnableCall(env) == "call" \in env

\* The first check: the replace directive in go.mod.
BuildCheckReplace ==
    /\ buildPc = "start"
    /\ IF GrepReplace(buildEnv)
       THEN buildPc' = "replaced" /\ buildOut' = buildOut
       ELSE buildPc' = "exit1" /\ buildOut' = Append(buildOut, "Error")
    /\ UNCHANGED buildEnv
    /\ UNCHANGED buildRest

\* The second check: sqlite3.go at the replaced path.
BuildCheckFile ==
    /\ buildPc = "replaced"
    /\ IF HasSqlite3Go(buildEnv)
       THEN buildPc' = "found" /\ buildOut' = buildOut
       ELSE buildPc' = "exit1" /\ buildOut' = Append(buildOut, "Error")
    /\ UNCHANGED buildEnv
    /\ UNCHANGED buildRest

\* The third check: the enable call in sqlite3.go.  The branch prints
\* three lines and holds no exit.
BuildCheckCall ==
    /\ buildPc = "found"
    /\ buildPc' = "checked"
    /\ buildOut' = IF GrepEnableCall(buildEnv) THEN buildOut
                   ELSE Append(buildOut, "Warning")
    /\ UNCHANGED buildEnv
    /\ UNCHANGED buildRest

\* The extension is downloaded unless it is present; under set -e a
\* failing curl, tar or chmod ends the script.
BuildFetch ==
    /\ buildPc = "checked"
    /\ IF "extension" \in buildEnv
       THEN buildPc' = "fetched" /\ buildEnv' = buildEnv
       ELSE IF "download" \in buildEnv
       THEN buildPc' = "fetched" /\ buildEnv' = buildEnv \cup {"extension"}
       ELSE buildPc' = "failed" /\ buildEnv' = buildEnv
    /\ UNCHANGED buildOut
    /\ UNCHANGED buildRest

\* Platforms other than darwin/arm64 fetch and build SQLite first.
BuildSqlite ==
    /\ buildPc = "fetched"
    /\ "darwin_arm64" \notin buildEnv
    /\ buildPc' = IF "sqlite" \in buildEnv THEN "linked" ELSE "failed"
    /\ UNCHANGED <<buildEnv, buildOut>>
    /\ UNCHANGED buildRest

\* go build -tags "sqlite3_load_extension" ... sqlite-server.go
BuildGo ==
    /\ \/ buildPc = "fetched" /\ "darwin_arm64" \in buildEnv
       \/ buildPc = "linked"
    /\ buildOut' = Append(buildOut, "go build")
    /\ buildPc' = IF "compiles" \in buildEnv THEN "built" ELSE "failed"
    /\ UNCHANGED buildEnv
    /\ UNCHANGED buildRest

NextBuild ==
    \/ BuildCheckReplace
    \/ BuildCheckFile
    \/ BuildCheckCall
    \/ BuildFetch
    \/ BuildSqlite
    \/ BuildGo

SpecBuild == InitBuild /\ [][NextBuild]_vars

\* ------------------------------------------------------------ patch-go-sqlite3.sh
\* The script file holds three scripts one after the other; the second
\* and third `#!/bin/bash` are comments, so one run executes all three
\* in one shell.  Each part ends its preamble with `cd go-sqlite3` and
\* none returns before the next starts: part 1 patches
\* go-sqlite3/sqlite3.go, part 2 the sqlite3.go of the checkout cloned
\* inside it, part 3 the one a level deeper.  The model follows the
\* branches taken when uname is not Darwin.
\*
\* A line of sqlite3.go is a sequence of pieces of text.
CgoWord == "#cgo CFLAGS:"
LoadFlags == "-DSQLITE_ENABLE_LOAD_EXTENSION=1 -DSQLITE_ALLOW_LOAD_EXTENSION=1"
CgoLine == <<CgoWord, "-std=gnu99">>
IncludeLine == <<"// #include <sqlite3ext.h>">>
ErrNewLine == <<"return nil, errors.New(\"sqlite succeeded without returning a database\")">>
OpenLine == <<"db, rv := C.sqlite3_open_v2">>
OtherLine == <<"var db *C.sqlite3">>
DeclLine == <<"int sqlite3_enable_load_extension(sqlite3 *db, int onoff);">>
ExtIfLine == <<"if rv := C.sqlite3_enable_load_extension(db, 1); rv != C.SQLITE_OK {">>
ExtOkLine == <<"fmt.Println(\"Successfully enabled extension loading at connection time\")">>

\* extension_patch.go
ExtensionPatch ==
    << <<"// Enable extension loading immediately">>, ExtIfLine,
       <<"fmt.Printf(\"Warning: Failed to enable extension loading\")">>,
       <<"} else {">>, ExtOkLine, <<"}">> >>

\* The two lines the last step appends.
AutoEnable == << <<"// Auto-enable extension loading">>, <<"autoEnableLoadExtension(db)">> >>

\* The sqlite3.go files git clone may deliver.
UpstreamFiles ==
    UNION {[1 .. n -> {CgoLine, IncludeLine, ErrNewLine, OpenLine, OtherLine}] :
              n \in 1 .. MaxSrcLines}

\* grep -q "#cgo CFLAGS:" sqlite3.go, and grep -q "#cgo" of the loop
GrepCflags(lines) == \E i \in DOMAIN lines : lines[i][1] = CgoWord

\* grep -q "sqlite3_enable_load_extension" sqlite3.go
GrepEnableName(lines) == \E i \in DOMAIN lines : lines[i] \in {DeclLine, ExtIfLine}

\* grep -q "Successfully enabled extension loading at connection time" sqlite3.go
GrepConnected(lines) == \E i \in DOMAIN lines : lines[i] = ExtOkLine

\* grep -n "db, rv := C.sqlite3_open_v2" sqlite3.go | head -1 | cut -d':' -f1,
\* 0 for the empty string
FirstOpenLine(lines) ==
    IF \E i \in DOMAIN lines : lines[i] = OpenLine
    THEN CHOOSE i \in DOMAIN lines :
            /\ lines[i] = OpenLine
            /\ \A j \in 1 .. i - 1 : lines[j] /= OpenLine
    ELSE 0

\* sed -i 's|#cgo CFLAGS:|#cgo CFLAGS: <flags>|' sqlite3.go: on every line
\* that holds the pattern the flags are put behind it, whatever follows
\* (a line holds the pattern once, so the g flag of the loop changes
\* nothing).
SedCflags(lines) ==
    [i \in DOMAIN lines |->
        IF lines[i][1] = CgoWord THEN <<CgoWord, LoadFlags>> \o Tail(lines[i])
        ELSE lines[i]]

\* sed -i '/pattern/a text' and sed -i '/pattern/r file': the new lines
\* follow every line that matches.
RECURSIVE SedAfterEach(_, _, _, _)
SedAfterEach(lines, pattern, new, k) ==
    IF k > Len(lines) THEN <<>>
    ELSE (IF lines[k] = pattern THEN <<lines[k]>> \o new ELSE <<lines[k]>>)
            \o SedAfterEach(lines, pattern, new, k + 1)

\* sed -i "${NEXT_LINE}a ...": the new lines follow line n; an address
\* past the last line selects nothing.
SedAfterLine(lines, n, new) ==
    IF n <= Len(lines)
    THEN SubSeq(lines, 1, n) \o new \o SubSeq(lines, n + 1, Len(lines))
    ELSE lines

\* The declaration step: skipped when the file names the function.
DeclareStep(lines) ==
    IF ~GrepEnableName(lines) THEN SedAfterEach(lines, IncludeLine, <<DeclLine>>, 1)
    ELSE lines

\* The connection-time step: skipped when the file holds the message.
ConnectStep(lines) ==
    IF ~GrepConnected(lines) THEN SedAfterEach(lines, ErrNewLine, ExtensionPatch, 1)
    ELSE lines

\* Part 1 up to the step that edits conn.go.
PatchPart1Head(lines) == DeclareStep(SedCflags(lines))

\* Part 1 as a whole.
PatchPart1(lines) == ConnectStep(PatchPart1Head(lines))

\* Part 2: the flags go in when the file holds a CFLAGS line.
PatchPart2(lines) ==
    ConnectStep(DeclareStep(IF GrepCflags(lines) THEN SedCflags(lines) ELSE lines))

\* The last step of part 3: the call goes in two lines below the first
\* line that opens the database.
AutoEnableStep(lines) ==
    IF FirstOpenLine(lines) /= 0
    THEN SedAfterLine(lines, FirstOpenLine(lines) + 2, AutoEnable)
    ELSE lines

\* Part 3: the flags in every file with a cgo directive, then the call.
PatchPart3(lines) ==
    AutoEnableStep(IF GrepCflags(lines) THEN SedCflags(lines) ELSE lines)

InitRepatch ==
    /\ InitServer
    /\ tbl = 0
    /\ InitProxyOff
    /\ InitStaticOff
    /\ InitHdrs
    /\ InitMainOff
    /\ InitPathOff
    /\ InitPatchOff
    /\ InitMatchOff
    /\ InitBootOff
    /\ shown = <<>>
    /\ InitBuildOff
    /\ \E up \in UpstreamFiles : goTree = <<up, up, up>>
    /\ goPc = <<1, "start">>
    /\ goFirst = <<>>
    /\ goConn \in BOOLEAN

repatchRest == <<srvVars, proxyReq, proxyOut, fs, staticReq, staticOut, hdrs, auxHdrs,
                 mainVars, pathVars, patchVars, matchVars, bootVars, shown,
                 buildEnv, buildPc, buildOut>>

\* What a run that ends leaves behind: the first run's result is kept.
KeptFirst(run, tree) == IF run = 1 THEN tree ELSE goFirst

\* Part 1.  Without conn.go the sed that edits it fails and set -e ends
\* the script there, the flags and the declaration already written.
RepatchPart1 ==
    /\ goPc[2] = "start"
    /\ IF goConn
       THEN /\ goTree' = [goTree EXCEPT ![1] = PatchPart1(goTree[1])]
            /\ goPc' = <<goPc[1], "part1">>
            /\ goFirst' = goFirst
       ELSE /\ goTree' = [goTree EXCEPT ![1] = PatchPart1Head(goTree[1])]
            /\ goPc' = <<goPc[1], "failed">>
            /\ goFirst' = KeptFirst(goPc[1], [goTree EXCEPT ![1] = PatchPart1Head(goTree[1])])
    /\ UNCHANGED goConn
    /\ UNCHANGED repatchRest

\* Part 2, in the checkout inside the first.
RepatchPart2 ==
    /\ goPc[2] = "part1"
    /\ goTree' = [goTree EXCEPT ![2] = PatchPart2(goTree[2])]
    /\ goPc' = <<goPc[1], "part2">>
    /\ UNCHANGED <<goFirst, goConn>>
    /\ UNCHANGED repatchRest

\* Part 3, a level deeper; the script ends.
RepatchPart3 ==
    /\ goPc[2] = "part2"
    /\ goTree' = [goTree EXCEPT ![3] = PatchPart3(goTree[3])]
    /\ goPc' = <<goPc[1], "done">>
    /\ goFirst' = KeptFirst(goPc[1], [goTree EXCEPT ![3] = PatchPart3(goTree[3])])
    /\ UNCHANGED goConn
    /\ UNCHANGED repatchRest

\* The script is started a second time.
RepatchAgain ==
    /\ goPc[1] = 1
    /\ goPc[2] \in {"done", "failed"}
    /\ goPc' = <<2, "start">>
    /\ UNCHANGED <<goTree, goFirst, goConn>>
    /\ UNCHANGED repatchRest

NextRepatch == RepatchPart1 \/ RepatchPart2 \/ RepatchPart3 \/ RepatchAgain

SpecRepatch == InitRepatch /\ [][NextRepatch]_vars

\* ------------------------------------------------------------ claims
Active == {r \in Reqs : pc[r] /= "idle"}
QueryReqs == {r \in Active : req[r].route = "query"}
ApiReqs == {r \in Active : req[r].route = "api"}

\* C1: every POST /query whose statement executed successfully, also one
\* that returned no rows, is answered 200 with a JSON array holding one
\* row object per result row, in result order.
C1_QueryArrayPerRow ==
    \A r \in QueryReqs :
        (pc[r] = "done" /\ sent[r] > 0 /\ qerr[r] = "none") =>
            /\ resp[r].status = 200
            /\ resp[r].kind = "json"
            /\ ~resp[r].isnull
            /\ resp[r].items = result[r].items
            /\ Len(resp[r].items) = nread[r]

\* C2: at most one statement holds the database connection at any time,
\* and no request's statement goes to the database while another
\* request's rows are still open.
C2_OneStatementAtATime ==
    /\ [](/\ Cardinality(holders) <= 1
          /\ holders = {r \in Reqs : pc[r] \in {"cols", "rows"}})
    /\ [][\A r \in Reqs : sent'[r] > sent[r] => holders \ {r} = {}]_vars

\* A request waits at db.Query while another request's rows are open.
C2_Witness ==
    \E r1 \in Reqs, r2 \in Reqs :
        /\ r1 /= r2
        /\ r1 \in holders /\ pc[r1] = "rows" /\ nread[r1] > 0
        /\ pc[r2] = "call" /\ sent[r2] = 0

\* The host and the rest of a proxied request path.
ProxyRem == TrimPrefix(proxyReq.path, ProxyPrefix)
ProxyHost == IF Index(ProxyRem, <<"/">>) = 0 THEN ProxyRem
             ELSE SubSeq(ProxyRem, 1, Index(ProxyRem, <<"/">>) - 1)
ProxyHasRest == Index(ProxyRem, <<"/">>) /= 0
ProxyRest == SubSeq(ProxyRem, Index(ProxyRem, <<"/">>) + 1, Len(ProxyRem))
ProxyHostIsName == ProxyHost /= <<>> /\ Range(ProxyHost) \subseteq {"h"}

\* C3: for /proxy/<host>/<rest> with query string q, <host> a host name,
\* handleProxy forwards a request with scheme https, URL host and Host
\* header <host>, path /<rest> and query string q; for /proxy/<host> the
\* forwarded path is "/".
C3_ProxyForward ==
    (proxyReq /= NoProxy /\ ProxyHostIsName) =>
        /\ proxyOut.forwarded
        /\ proxyOut.scheme = Https
        /\ proxyOut.urlHost = ProxyHost
        /\ proxyOut.host = ProxyHost
        /\ proxyOut.path = (IF ProxyHasRest THEN <<"/">> \o ProxyRest ELSE <<"/">>)
        /\ proxyOut.rawQuery = proxyReq.rawQuery

\* /proxy/<host> without a rest, with a query string, was forwarded.
C3_Witness ==
    /\ proxyReq /= NoProxy
    /\ ProxyHostIsName
    /\ ~ProxyHasRest
    /\ proxyReq.rawQuery /= <<>>
    /\ proxyOut.forwarded

\* A request that met a failure: a body that is not valid JSON, an SQL
\* error, or an unmatched API route.
Failed(r) ==
    \/ req[r].body.kind \in {"garbage", "array"}
    \/ qerr[r] /= "none"
    \/ (req[r].route = "api" /\ findMatchingEndpoint(req[r].path).idx = 0)

\* C4: no request that met a failure is answered with status 200: its
\* response is an HTTP error status (4xx or 5xx).
C4_FailureIsErrorStatus ==
    \A r \in Active :
        (pc[r] = "done" /\ Failed(r)) => resp[r].status >= 400

\* The method definition an API request matched.
MatchedMethod(r) ==
    apiDesc.Endpoints[findMatchingEndpoint(req[r].path).idx].Methods[req[r].method]

\* The value handleAPI resolves for a name of request r.
Resolved(r, name) ==
    ResolveParam(name, findMatchingEndpoint(req[r].path).params,
                 extractQueryParams(req[r].query),
                 extractBodyParams(req[r].body).params)

\* C5: the statement handleAPI executes binds to each placeholder :name
\* of the declared SQL text the value resolved for that name.
C5_PlaceholdersBound ==
    \A r \in ApiReqs :
        pc[r] = "call" =>
            /\ Len(ParamTokens(stmt[r].text, 1)) = Len(ParamTokens(MatchedMethod(r).SQL, 1))
            /\ \A k \in DOMAIN ParamTokens(MatchedMethod(r).SQL, 1) :
                  BoundValue(stmt[r].text, stmt[r].args, k)
                     = Resolved(r, ParamTokens(MatchedMethod(r).SQL, 1)[k].name)

\* C6: handleAPI answers 404 and runs no SQL when no endpoint template
\* matches, 405 and no SQL when the matched endpoint declares no such
\* method, and otherwise executes the SQL declared for that template and
\* method.
C6_ApiDecisionOrder ==
    \A r \in ApiReqs :
        IF findMatchingEndpoint(req[r].path).idx = 0
        THEN pc[r] = "done" /\ resp[r].status = 404 /\ sent[r] = 0
        ELSE IF req[r].method \notin
                DOMAIN apiDesc.Endpoints[findMatchingEndpoint(req[r].path).idx].Methods
        THEN pc[r] = "done" /\ resp[r].status = 405 /\ sent[r] = 0
        ELSE /\ stmt[r] = BindLoop(MatchedMethod(r).SQL, <<>>, MatchedMethod(r).Params, 1,
                                   findMatchingEndpoint(req[r].path).params,
                                   extractQueryParams(req[r].query),
                                   extractBodyParams(req[r].body).params)
             /\ stmt[r].text[1] = MatchedMethod(r).SQL[1]
             /\ resp[r].status \notin {404, 405}
             /\ pc[r] = "done" => sent[r] = 1

\* A request matched a template that declares no such method.
C6_Witness ==
    \E r \in ApiReqs :
        /\ pc[r] = "done"
        /\ findMatchingEndpoint(req[r].path).idx /= 0
        /\ resp[r].status = 405

\* C7: handleQuery sends a statement to the database only for a POST
\* whose body decodes; any other method is answered 405, a body that does
\* not decode 400, and neither changes the database.
C7_QueryValidation ==
    /\ [](\A r \in QueryReqs :
            /\ req[r].method /= "POST" =>
                  pc[r] = "done" /\ resp[r].status = 405 /\ sent[r] = 0
            /\ (req[r].method = "POST" /\ req[r].body.kind \in {"empty", "garbage", "array"}) =>
                  pc[r] = "done" /\ resp[r].status = 400 /\ sent[r] = 0
            /\ sent[r] > 0 => req[r].method = "POST" /\ req[r].body.kind = "obj")
    /\ [][\A r \in Reqs :
            (pc[r] = "idle" /\ pc'[r] = "done") => tbl' = tbl /\ sent' = sent]_vars

\* A GET on /query was answered 405.
C7_Witness ==
    \E r \in QueryReqs :
        pc[r] = "done" /\ req[r].method = "GET" /\ resp[r].status = 405

\* C8: a request that passed validation sends its statement to the
\* database exactly once; when the statement fails the handler answers
\* with that error and the statement is not sent again.
C8_SentExactlyOnce ==
    \A r \in Active :
        /\ sent[r] <= 1
        /\ Dispatch(req[r]).run => sent[r] = (IF pc[r] = "call" THEN 0 ELSE 1)
        /\ (pc[r] = "done" /\ qerr[r] /= "none") =>
              /\ resp[r].status = 500
              /\ resp[r].kind = "text"
              /\ resp[r].text[Len(resp[r].text)] = qerr[r]

\* A statement failed at db.Query and the request was answered.
C8_Witness ==
    \E r \in Active :
        pc[r] = "done" /\ qerr[r] = "query error" /\ sent[r] = 1

\* C9: when scanning or iterating fails after k >= 0 rows, executeQuery
\* returns the error with no rows and the response is an error holding
\* none of the rows read.
C9_AllOrNothing ==
    \A r \in Active :
        (pc[r] \in {"ret", "done"} /\ qerr[r] \in {"scan error", "iteration error"}) =>
            /\ result[r] = NilResult
            /\ pc[r] = "done" =>
                  /\ resp[r].status = 500
                  /\ resp[r].kind = "text"
                  /\ resp[r].items = <<>>

\* A scan failed after at least one row was read, and the request was
\* answered.
C9_Witness ==
    \E r \in Active :
        pc[r] = "done" /\ qerr[r] = "scan error" /\ nread[r] > 0

C11_PgConnAccepted ==
    ("pg-conn" \in args /\ mainPc \notin {"off", "start"}) =>
        /\ mainPc /= "exit"
        /\ dbName /= "" => dbName = "postgres"

\* C19 as stated: with a loaded API description, whatever its basePath,
\* main registers four distinct patterns and reaches the listening
\* state.
C19_FourDistinctRoutes ==
    ("api" \in args /\ mainPc \in {"listening", "panic"}) =>
        /\ mainPc = "listening"
        /\ Len(routes) = 4
        /\ Cardinality(Range(routes)) = 4

\* C20 as stated: a request whose path is the base path joined with a
\* path that a declared template matches is resolved to an endpoint.
C20_BasePathResolved ==
    lookup /= <<>> => lookup[2] /= 0

\* C12 as stated: for a template and a request path its regexp matches,
\* the capture groups and the collected parameter names are equal in
\* number, and each :name of the template is bound to the text of the
\* request segment at the same position.
C12_PathParamsPaired ==
    pathOut[1] =>
        /\ Len(ParamNames(Split(tmpl, "/"), 1))
              = Len(Captures(pathToRegexp(tmpl), Split(rpath, "/"), 1))
        /\ \A k \in DOMAIN Split(tmpl, "/") :
              pathToRegexp(tmpl)[k].cap =>
                  /\ ParamNames(<<Split(tmpl, "/")[k]>>, 1) /= <<>>
                  /\ ParamNames(<<Split(tmpl, "/")[k]>>, 1)[1] \in DOMAIN pathOut[2]
                  /\ pathOut[2][ParamNames(<<Split(tmpl, "/")[k]>>, 1)[1]]
                        = Str(Split(rpath, "/")[k])

\* C13: every response, on every route and with every status code,
\* proxied responses included, carries Access-Control-Allow-Origin: *
\* together with the Access-Control-Allow-Methods and
\* Access-Control-Allow-Headers headers.
C13_CorsOnEveryResponse ==
    /\ \A r \in Reqs : resp[r].status /= 0 => CorsHeaders \subseteq hdrs[r]
    /\ (proxyReq /= NoProxy \/ staticReq /= NoStatic) => CorsHeaders \subseteq auxHdrs

\* A proxied response whose upstream set its own
\* Access-Control-Allow-Origin was handed on.
C13_Witness ==
    /\ proxyOut.forwarded
    /\ <<"Access-Control-Allow-Origin", "https://example.org">> \in auxHdrs

\* C14 as stated: after the script patched sqlite3.go, the inserted call
\* is executed on every successful open of a database handle, that is on
\* the path taken when db is not nil.
C14_EnableOnEveryOpen ==
    (patchPc = "opened" /\ ~dbNil) => enabled >= 1

\* C15 as stated: when the JSON encoding of a query result fails in
\* sendJSONResponse, the client receives status 500 with the text
\* "Internal server error".
C15_EncodeFailureIs500 ==
    \A r \in Active :
        (pc[r] = "done" /\ sent[r] > 0 /\ qerr[r] = "none" /\ ~jsonMarshal(result[r]).ok) =>
            /\ resp[r].status = 500
            /\ resp[r].text = <<"Internal server error">>

\* Where request r carries a value for a name.
InPath(r, name) == name \in DOMAIN findMatchingEndpoint(req[r].path).params
InQuery(r, name) == name \in Range(req[r].query.keys)
InBody(r, name) == req[r].body.kind = "obj" /\ name \in DOMAIN req[r].body.obj

\* The first value the URL query of request r gives for a name.
FirstQueryValue(r, name) ==
    req[r].query.values[CHOOSE i \in DOMAIN req[r].query.keys :
                            req[r].query.keys[i] = name][1]

\* C16: for each name of the params list handleAPI takes the value from
\* the path parameters first, then the first value of the URL query key,
\* then the JSON body, and binds NULL when none has it; the argument list
\* has one entry per name, in the order of the list.
C16_ParamResolutionOrder ==
    \A r \in ApiReqs :
        pc[r] = "call" =>
            /\ Len(stmt[r].args) = Len(MatchedMethod(r).Params)
            /\ \A k \in DOMAIN MatchedMethod(r).Params :
                  stmt[r].args[k] =
                     (IF InPath(r, MatchedMethod(r).Params[k])
                      THEN findMatchingEndpoint(req[r].path).params[MatchedMethod(r).Params[k]]
                      ELSE IF InQuery(r, MatchedMethod(r).Params[k])
                      THEN Str(FirstQueryValue(r, MatchedMethod(r).Params[k]))
                      ELSE IF InBody(r, MatchedMethod(r).Params[k])
                      THEN req[r].body.obj[MatchedMethod(r).Params[k]]
                      ELSE Nil)

\* A name is given by the path and by the URL query, and the statement
\* is about to run.
C16_Witness ==
    \E r \in ApiReqs :
        /\ pc[r] = "call"
        /\ InPath(r, NameI)
        /\ InQuery(r, NameI)
        /\ MatchedMethod(r).Params = <<NameI>>

C18_ReleasedBeforeResponse ==
    /\ [](\A r \in Reqs : resp[r].status /= 0 => r \notin holders)
    /\ [][\A r \in Reqs : resp'[r] /= resp[r] => (r \notin holders /\ r \notin holders')]_vars

\* A request was answered with its rows while another request's
\* statement holds the connection.
C18_Witness ==
    \E r1 \in Reqs, r2 \in Reqs :
        /\ r1 /= r2
        /\ pc[r1] = "done" /\ resp[r1].status = 200 /\ nread[r1] > 0
        /\ r2 \in holders /\ pc[r2] = "rows"


\* ---- C21, C22: endpoint lists
\* The request path of an answer as the two loops see it.
StrippedOf(a) == StripBasePath(a[1], basePath)
NormalizedOf(a) == NormalizePath(StrippedOf(a))
\* The declared endpoints whose template matches the normalized path.
NormalHits(a) ==
    {k \in DOMAIN endpoints :
        MatchString(pathToRegexp(endpoints[k]), NormalizedOf(a))}

\* C21: when declared templates match the normalized request path, the
\* endpoint returned is the earliest declared of them; an endpoint that
\* does not match the normalized path is returned only when none does,
\* and then it matches the original path.
C21_EarliestDeclaredWins ==
    \A a \in answers :
        LET hits == NormalHits(a)
        IN /\ hits /= {} => (a[2] \in hits /\ \A j \in hits : a[2] <= j)
           /\ (a[2] /= 0 /\ a[2] \notin hits) =>
                 /\ hits = {}
                 /\ MatchString(pathToRegexp(endpoints[a[2]]), StrippedOf(a))

\* One request was matched by two declared templates, another only by
\* the fallback loop.
C21_Witness ==
    /\ \E a \in answers : Cardinality(NormalHits(a)) >= 2 /\ a[2] /= 0
    /\ \E b \in answers : b[2] /= 0 /\ NormalHits(b) = {}

\* C22 as stated: for every request path P that does not end in "/",
\* findMatchingEndpoint returns the same endpoint and the same path
\* parameters for P and for P + "/".
C22_TrailingSlashIgnored ==
    \A a \in answers, b \in answers :
        (~HasSuffix(a[1], <<"/">>) /\ b[1] = a[1] \o <<"/">>)
            => (a[2] = b[2] /\ a[3] = b[3])

\* C22 amended: for every request path P that does not end in "/" and
\* for which an endpoint is returned, the same endpoint and the same
\* path parameters are returned for P + "/", unless P + "/" is the base
\* path itself.
C22_MatchedKeepsWithSlash ==
    \A a \in answers, b \in answers :
        (/\ ~HasSuffix(a[1], <<"/">>)
         /\ b[1] = a[1] \o <<"/">>
         /\ a[2] /= 0
         /\ b[1] /= basePath)
            => (a[2] = b[2] /\ a[3] = b[3])

\* P was matched with a path parameter, and P + "/" was looked up too.
C22_Witness ==
    \E a \in answers, b \in answers :
        /\ ~HasSuffix(a[1], <<"/">>)
        /\ b[1] = a[1] \o <<"/">>
        /\ a[2] /= 0
        /\ b[1] /= basePath
        /\ a[3] /= EmptyMap
        /\ b[2] = a[2]


\* ---- C23
\* C23: an OPTIONS request on any path is answered with status 200 by
\* the middleware and reaches no handler: no statement is prepared or
\* sent to the database, nothing is forwarded upstream and no file is
\* looked at.
C23_OptionsStopAtCors ==
    \A r \in Reqs :
        (pc[r] /= "idle" /\ req[r].method = "OPTIONS") =>
            /\ pc[r] = "done"
            /\ resp[r].status = 200
            /\ resp[r] = WriteHeader(NewWriter, 200)
            /\ stmt[r] = NoStatement
            /\ sent[r] = 0
            /\ holders = {}
            /\ proxyOut = NoProxyOut
            /\ staticOut = NoStaticOut

\* An OPTIONS request for an endpoint that declares an OPTIONS method
\* was answered.
C23_Witness ==
    \E r \in Reqs :
        /\ pc[r] = "done"
        /\ req[r].route = "api"
        /\ req[r].method = "OPTIONS"
        /\ findMatchingEndpoint(req[r].path).idx /= 0
        /\ "OPTIONS" \in DOMAIN apiDesc.Endpoints[findMatchingEndpoint(req[r].path).idx].Methods
        /\ resp[r].status = 200


\* ---- C24
\* C24: every row object executeQuery builds has exactly one entry per
\* column of the result set: as many keys as the result has columns.
C24_OneEntryPerColumn ==
    \A r \in Reqs :
        \A i \in DOMAIN result[r].items :
            Cardinality(DOMAIN result[r].items[i]) = Len(Columns(stmt[r].text))


\* ---- C25, C26: NewServer
NewServerReturned == mainPc /= "parsed"

\* C25: NewServer returns an error, and main stops, exactly when sql.Open
\* fails; whatever else fails, the server starts when no API description
\* is loaded; after a failed load of the API description apiDesc is nil
\* and the routes registered are "/proxy/", "/query" and "/" only.
C25_OnlyOpenIsFatal ==
    NewServerReturned =>
        /\ (mainPc = "fatal") = ("open" \in bootFailed)
        /\ ("open" \notin bootFailed /\ srvApi = "nil") => mainPc \in {"server", "listening"}
        /\ (bootFailed \cap ApiSteps /= {}) =>
              /\ srvApi = "nil"
              /\ srvRegexps = {}
              /\ mainPc = "listening" => routes = <<ProxyPrefix, QueryPattern, RootPattern>>

\* The server listens although the ATTACH statement, the extension and
\* the API description all failed.
C25_Witness ==
    /\ mainPc = "listening"
    /\ "attach" \in bootFailed
    /\ "load" \in bootFailed
    /\ bootFailed \cap ApiSteps /= {}
    /\ routes = <<ProxyPrefix, QueryPattern, RootPattern>>

\* C26: once NewServer has returned, apiDesc, pathRegexps and
\* showResponses never change, and pathRegexps holds a regexp for exactly
\* the endpoint paths the loaded description declares.
C26_ServerFieldsFrozen ==
    /\ [](NewServerReturned =>
            srvRegexps = (IF srvApi = "loaded" THEN Range(endpoints) ELSE {}))
    /\ [][NewServerReturned =>
            (/\ srvApi' = srvApi
             /\ srvRegexps' = srvRegexps
             /\ srvShow' = srvShow
             /\ endpoints' = endpoints
             /\ basePath' = basePath)]_vars

\* A request was matched against a loaded description with two
\* endpoints.
C26_Witness ==
    /\ mainPc = "listening"
    /\ srvApi = "loaded"
    /\ Cardinality(srvRegexps) = 2
    /\ lookup /= <<>>
    /\ lookup[2] = 2


\* ---- C27
\* C27: for the same request over the same table, the response (status
\* and body) is the same whether the server was started with or without
\* the show-responses options.
C27_ShowResponsesOnlyLogs ==
    shown /= <<>> => shown[3][1] = shown[4][1]

\* A server started with -s logged a response that the server started
\* without it did not log, for a statement that returned rows.
C27_Witness ==
    /\ shown /= <<>>
    /\ args /= {}
    /\ shown[3][2] /= shown[4][2]
    /\ shown[3][1].status = 200
    /\ shown[3][1].items /= <<>>


\* ---- C28
\* C28: build-unified.sh runs go build only when go.mod holds the replace
\* directive, sqlite3.go exists at the replaced path and that file holds
\* the enable call: when one of the three checks fails, the script stops
\* before building.
C28_BuildOnlyWhenPatched ==
    "go build" \in Range(buildOut) =>
        (GrepReplace(buildEnv) /\ HasSqlite3Go(buildEnv) /\ GrepEnableCall(buildEnv))


\* ---- C29
\* C29: patch-go-sqlite3.sh is idempotent: a second run leaves every
\* sqlite3.go it patches exactly as the first run left it, the flags,
\* the declaration and the enable call each inserted at most once.
C29_SecondRunChangesNothing ==
    (goPc[1] = 2 /\ goPc[2] \in {"done", "failed"}) => goTree = goFirst

============================================================================
